---- MODULE Spec2Model ----
(***************************************************************************)
(* A model of the row positioner of ila-timeline                           *)
(* (src/src/DiagramPositioner.js): the entity builder (_readEntries), the  *)
(* occupancy grid and the layout pass (_position).  One layout pass is a   *)
(* behaviour: Init holds the entry nodes handed to the constructor, and    *)
(* every action is one step of the constructor or of _position.            *)
(***************************************************************************)
EXTENDS Integers, Sequences, FiniteSets, TLC

(***************************************************************************)
(* Bounds of the model and constants of the program.                       *)
(***************************************************************************)
NumNodes == 3
MaxNodes == 4
NumYears == 2
MaxManualRow == 2
MaxPasses == 4
MaxLinks == 3
MaxManual == 1
WideLinks == 4
SimpleYears == 3
SimpleLinks == 2
MaxChained == 2
MaxGridRows == 3

YearStart == 1900
YearEnd == YearStart + NumYears
XLength == YearEnd - YearStart + 1

\* JavaScript's undefined, for a numeric property (row, rowTemp, a year).
Undef == -1000
\* JavaScript's null, for the row of a GridCheck.
Null == -2000
\* An absent id-valued property (become, split, merge).
NoId == 0
\* The ids of the nodes: a document has the nodes 1..n, n <= MaxNodes.
Ids == 1..MaxNodes
\* An id that no node carries (an unresolvable reference).
GhostId == MaxNodes + 1
\* The master grid, as the target of a grid operation (an id names the
\* cluster grid of that entry).
Master == 0

NoErr == "none"
ErrInvalidRow == "Invalid row checked"
ErrInvalidRange == "Invalid range checked"
ErrMarkRow == "Attempt to mark non-existent grid row"
ErrXCoords == "X coords out of range"
ErrNotAYear == "not a year"
ErrType == "TypeError"
ErrNoGrid == "Tried to position without a calculated group grid"
ErrNoForceRow == "Cannot force position without a row"
ErrStack == "RangeError: Maximum call stack size exceeded"

Range(s) == {s[i] : i \in 1..Len(s)}
Max(a, b) == IF a >= b THEN a ELSE b
Abs(a) == IF a >= 0 THEN a ELSE -a
\* JavaScript truthiness of a numeric property: undefined and 0 are falsy.
Truthy(r) == r # Undef /\ r # 0

(***************************************************************************)
(* Grid: a sequence of rows, each a sequence of XLength booleans.  Row and *)
(* column arguments are the 0-based indices of the source.                 *)
(***************************************************************************)
EmptyRow == [i \in 1..XLength |-> FALSE]

yearToGridErr(year) == year = Undef
yearToGrid(year) == year - YearStart

\* _checkGridRow: the error it throws (NoErr if none) and its result.
checkGridRowErr(y, x1, x2, g) ==
    LET x2b == IF x1 = x2 THEN x2 + 1 ELSE x2
    IN  IF y < 0 \/ y >= Len(g) THEN ErrInvalidRow
        ELSE IF x2b > XLength - 1 \/ x1 < 0 THEN ErrInvalidRange
        ELSE NoErr

checkGridRow(y, x1, x2, g) ==
    LET x2b == IF x1 = x2 THEN x2 + 1 ELSE x2
    IN  \A c \in x1..(x2b - 1) : ~g[y + 1][c + 1]

\* _checkGridRange: the first row i of y1..y2 that is free between x1 and x2;
\* a row that cannot be checked throws.  v = Undef stands for `false`.
checkGridRange(x1, x2, y1, y2, g) ==
    LET hits == {i \in y1..y2 : \/ checkGridRowErr(i, x1, x2, g) # NoErr
                                \/ checkGridRow(i, x1, x2, g)}
        first == CHOOSE i \in hits : \A j \in hits : i <= j
    IN  IF hits = {} THEN [v |-> Undef, err |-> NoErr]
        ELSE IF checkGridRowErr(first, x1, x2, g) # NoErr
             THEN [v |-> Undef, err |-> checkGridRowErr(first, x1, x2, g)]
             ELSE [v |-> first, err |-> NoErr]

\* _markGridRow
markGridRowErr(y, x1, x2, g) ==
    IF y < 0 \/ y >= Len(g) THEN ErrMarkRow
    ELSE IF x1 > XLength - 1 \/ x2 > XLength - 1 THEN ErrXCoords
    ELSE NoErr

\* A marking that leaves out the buffer cell at either end of the span.
markGridRowNoBuffer(y, x1, x2, state, g) ==
    [g EXCEPT ![y + 1] =
        [i \in 1..XLength |-> IF x1 <= i - 1 /\ i - 1 < x2 THEN state ELSE g[y + 1][i]]]

markGridRow(y, x1, x2, state, g) ==
    [g EXCEPT ![y + 1] =
        [i \in 1..XLength |->
            LET c == i - 1
            IN  IF \/ (x1 <= c /\ c < x2)
                   \/ (x1 > 0 /\ c = x1 - 1)
                   \/ (x2 < XLength /\ c = x2)
                THEN state ELSE g[y + 1][i]]]

\* _blockGridRow and _freeGridRow
blockGridRow(y, x1, x2, g) == markGridRow(y, x1, x2, TRUE, g)
freeGridRow(y, x1, x2, g) == markGridRow(y, x1, x2, FALSE, g)

\* _addGridRow
addGridRow(g) == Append(g, EmptyRow)

\* _compareGridRows(row1, row2); row2 may be undefined (a row index outside
\* the grid), which throws as soon as a used cell of row1 is compared.
compareGridRowsErr(row1, g2, y) ==
    IF (y < 0 \/ y >= Len(g2)) /\ (\E i \in 1..XLength : row1[i]) THEN ErrType ELSE NoErr

compareGridRows(row1, g2, y) ==
    IF y < 0 \/ y >= Len(g2) THEN TRUE
    ELSE \A i \in 1..XLength : ~(row1[i] /\ g2[y + 1][i])

(***************************************************************************)
(* Entity builder: _readEntries and its helpers.  During the build the     *)
(* entries are a sequence of records; ids is <<>> while the property is    *)
(* absent, and chain marks the objects made by _mergeBecomeEntries (the    *)
(* node objects never carry it).                                           *)
(***************************************************************************)
MinOf(S) == CHOOSE i \in S : \A j \in S : i <= j

NodeToEntry(n) ==
    [id |-> n.id, start |-> n.start, end |-> n.end, become |-> n.become,
     split |-> n.split, merge |-> n.merge, row |-> n.row,
     ids |-> <<>>, chain |-> FALSE]

\* The entries pushed for the nodes, in document order.
RECURSIVE NodesToEntries(_)
NodesToEntries(ns) ==
    IF ns = <<>> THEN <<>>
    ELSE <<NodeToEntry(Head(ns))>> \o NodesToEntries(Tail(ns))

\* The spread of `undefined` ({...undefined}): an object without properties.
EmptyObject ==
    [id |-> NoId, start |-> Undef, end |-> Undef, become |-> NoId,
     split |-> NoId, merge |-> NoId, row |-> Undef, ids |-> <<>>, chain |-> FALSE]

RemoveAt(s, j) == SubSeq(s, 1, j - 1) \o SubSeq(s, j + 1, Len(s))

\* entries.splice(entries.findIndex(e => e.id == id), 1): findIndex gives -1
\* when no entry has the id, and splice(-1, 1) removes the last element.
SpliceById(es, id) ==
    LET J == {i \in 1..Len(es) : es[i].id = id}
    IN  IF J # {} THEN RemoveAt(es, MinOf(J))
        ELSE IF Len(es) = 0 THEN es ELSE RemoveAt(es, Len(es))

\* Array.prototype.sort((a, b) => a.start - b.start): a stable sort.
RECURSIVE SortByStart(_)
SortByStart(s) ==
    IF Len(s) <= 1 THEN s
    ELSE LET rest == SortByStart(SubSeq(s, 1, Len(s) - 1))
             e == s[Len(s)]
             k == Cardinality({i \in 1..Len(rest) : rest[i].start <= e.start})
         IN  SubSeq(rest, 1, k) \o <<e>> \o SubSeq(rest, k + 1, Len(rest))

\* _mergeBecomeEntries(e, entries).  seen holds the ids of the calls on the
\* stack: the entries do not change during the recursion, so a second call for
\* an id never returns.  The result is [e, err].
\* {...e, ...n} with the ids, the end and the merge taken from the target t.
Merged(e, t) ==
    [e EXCEPT !.ids = IF t.ids # <<>> THEN <<e.id>> \o t.ids ELSE <<e.id, t.id>>,
              !.chain = TRUE,
              !.end = t.end,
              !.become = NoId,
              !.merge = IF t.merge # NoId THEN t.merge ELSE e.merge]

\* The merge of e with its target, itself merged by the recursive call rec.
MergeInto(e, rec) ==
    IF rec.err # NoErr THEN [e |-> e, err |-> rec.err]
    ELSE [e |-> Merged(e, rec.e), err |-> NoErr]

\* _mergeBecomeEntries(e, entries).  seen holds the ids of the calls on the
\* stack: the entries do not change during the recursion, so a second call for
\* an id never returns.  The result is [e, err].
RECURSIVE mergeBecomeEntries(_, _, _)
mergeBecomeEntries(e, es, seen) ==
    LET J == {i \in 1..Len(es) :
                IF es[i].ids # <<>> THEN e.become \in Range(es[i].ids)
                ELSE es[i].id = e.become}
        t0 == IF J = {} THEN EmptyObject ELSE es[MinOf(J)]
    IN  IF t0.become # NoId /\ t0.id \in (seen \cup {e.id})
        THEN [e |-> e, err |-> ErrStack]
        ELSE IF t0.become # NoId
        THEN MergeInto(e, mergeBecomeEntries(t0, es, seen \cup {e.id}))
        ELSE [e |-> Merged(e, t0), err |-> NoErr]

\* The removal of the chained entries n.ids[1..] from the entries.
RECURSIVE RemoveChained(_, _, _)
RemoveChained(es, ids, i) ==
    IF i > Len(ids) THEN es
    ELSE RemoveChained(SpliceById(es, ids[i]), ids, i + 1)

\* The loop of _readEntries over the sorted `become` entries, from the k-th.
RECURSIVE MergeChains(_, _, _)

\* One turn of the loop: the entry at index `at` is replaced by the merged
\* entry m.e, and the entries it chains are removed.
Chained(es, L, k, at, m) ==
    IF m.err # NoErr THEN [es |-> es, err |-> m.err]
    ELSE MergeChains(RemoveChained([es EXCEPT ![at] = m.e], m.e.ids, 2), L, k + 1)

MergeChains(es, L, k) ==
    IF k > Len(L) THEN [es |-> es, err |-> NoErr]
    ELSE LET e == L[k]
             At == {i \in 1..Len(es) : es[i].id = e.id /\ ~es[i].chain}
         IN  IF At = {} THEN MergeChains(es, L, k + 1)
             ELSE Chained(es, L, k, MinOf(At), mergeBecomeEntries(e, es, {}))

\* _removeBadIds, for one property value: the id it is re-assigned to, and
\* whether the re-assignment throws (no entry holds the id in its ids).
BadId(v, es) == v # NoId /\ \A b \in 1..Len(es) : es[b].id # v

removeBadIdsErr(v, es) ==
    BadId(v, es) /\ \A b \in 1..Len(es) : v \notin Range(es[b].ids)

removeBadIdsProp(v, es) ==
    IF BadId(v, es)
    THEN es[MinOf({b \in 1..Len(es) : v \in Range(es[b].ids)})].id
    ELSE v

removeBadIds(entry, es) ==
    [entry EXCEPT !.merge = removeBadIdsProp(entry.merge, es),
                  !.split = removeBadIdsProp(entry.split, es)]

\* _findEntriesByValue(prop, value, entries) as the sequence of the ids found.
IdsWhere(es, P(_)) ==
    LET sel == SelectSeq(es, P) IN [i \in 1..Len(sel) |-> sel[i].id]

\* _getCluster
getCluster(entry, es) ==
    <<entry.id>>
    \o IdsWhere(es, LAMBDA e : e.split # NoId /\ e.split = entry.id)
    \o IdsWhere(es, LAMBDA m : m.merge # NoId /\ m.merge = entry.id
                               /\ entry.split # m.id /\ m.end # entry.start)
    \o IdsWhere(es, LAMBDA e : entry.merge # NoId /\ e.id = entry.merge
                               /\ e.start = entry.end)

\* The entry e of es with its cluster (<<>> if it has none).
WithCluster(e, es) ==
    LET c == getCluster(e, es)
    IN  [id |-> e.id, start |-> e.start, end |-> e.end, split |-> e.split,
         merge |-> e.merge, row |-> e.row, ids |-> e.ids,
         cluster |-> IF Len(c) > 1 THEN c ELSE <<>>]

WithClusters(es) == [i \in 1..Len(es) |-> WithCluster(es[i], es)]

\* The rest of _readEntries once the become chains are merged (m = [es, err]):
\* _removeBadIds for every entry, then _getCluster for every entry.
Resolved(m) ==
    IF m.err # NoErr THEN [es |-> <<>>, err |-> m.err]
    ELSE IF \E i \in 1..Len(m.es) : \/ removeBadIdsErr(m.es[i].merge, m.es)
                                    \/ removeBadIdsErr(m.es[i].split, m.es)
    THEN [es |-> <<>>, err |-> ErrType]
    ELSE [es |-> WithClusters([i \in 1..Len(m.es) |-> removeBadIds(m.es[i], m.es)]),
          err |-> NoErr]

\* _readEntries: [es, err], es the entries with their cluster.
readEntries(ns) ==
    Resolved(MergeChains(NodesToEntries(ns),
                         SortByStart(SelectSeq(NodesToEntries(ns),
                                               LAMBDA e : e.become # NoId)),
                         1))

(***************************************************************************)
(* The layout state.  The operators below take and return a record S:      *)
(*   ent    the entries by id (the objects of this._entries)               *)
(*   grid   this._grid, the master grid                                    *)
(*   order  this._order                                                    *)
(*   err    the error thrown, NoErr while none is                          *)
(*   adj    the ids that _adjustCluster has moved in Phase 3               *)
(*   stale  the (id, row) pairs of entries that _assignRow moved off a     *)
(*          row while their span on that row stayed blocked                *)
(*   devs   the (id, before, after) triples of the entries that             *)
(*          _adjustCluster has moved in Phase 3: the deviation of the      *)
(*          entry before and after the move                                *)
(* The variable `first` holds the outcome of an earlier construction over  *)
(* the same nodes (<<>> while there is none).  The variables `settled` and *)
(* `clash` belong to the positioner of setRows (below) and stay empty here. *)
(* An operator applied to a state with an error returns it unchanged: the  *)
(* throw unwinds the constructor.  `entries` is the order of               *)
(* this._entries, which is fixed once _readEntries has returned.           *)
(***************************************************************************)
VARIABLES pc, nodes, entries, ent, grid, order, err, idx, passes, adj, stale, devs,
          out, first, settled, clash

vars == <<pc, nodes, entries, ent, grid, order, err, idx, passes, adj, stale, devs,
          out, first, settled, clash>>

NoRel == [row |-> Undef, relative |-> Undef]

Ok(S) == S.err = NoErr
Throw(S, e) == IF Ok(S) THEN [S EXCEPT !.err = e] ELSE S

GridOf(S, ref) == IF ref = Master THEN S.grid ELSE S.ent[ref].grid
SetGrid(S, ref, g) ==
    IF ref = Master THEN [S EXCEPT !.grid = g] ELSE [S EXCEPT !.ent[ref].grid = g]

X1(e) == yearToGrid(e.start)
X2(e) == yearToGrid(e.end)
\* _yearToGrid throws for a year that is not a number.
SpanErr(e) == yearToGridErr(e.start) \/ yearToGridErr(e.end)

\* _blockGridRow / _freeGridRow of the span of entry id on row y of a grid.
markEntry(S, y, id, state, ref) ==
    LET e == S.ent[id]
        g == GridOf(S, ref)
    IN  IF ~Ok(S) THEN S
        ELSE IF SpanErr(e) THEN Throw(S, ErrNotAYear)
        ELSE IF markGridRowErr(y, X1(e), X2(e), g) # NoErr
             THEN Throw(S, markGridRowErr(y, X1(e), X2(e), g))
        ELSE SetGrid(S, ref, markGridRow(y, X1(e), X2(e), state, g))

blockEntry(S, y, id, ref) == markEntry(S, y, id, TRUE, ref)
freeEntry(S, y, id, ref) == markEntry(S, y, id, FALSE, ref)

\* The record of a re-assignment that left the old span blocked: S is the
\* state after _assignRow moved the entry e (as it was before) to `row`.
Reassigned(S, e, row) ==
    IF /\ Ok(S) /\ e.row # Undef /\ e.row # row
       /\ e.row >= 0 /\ e.row < Len(S.grid)
       /\ \A c \in X1(e)..(Max(X2(e), X1(e) + 1) - 1) : S.grid[e.row + 1][c + 1]
    THEN [S EXCEPT !.stale = @ \cup {<<e.id, e.row>>}]
    ELSE S

\* entry.row = row
SetRow(S, row, id) == IF Ok(S) THEN [S EXCEPT !.ent[id].row = row] ELSE S

\* _assignRow
assignRow(S, row, id) ==
    IF ~Ok(S) THEN S
    ELSE Reassigned(blockEntry(SetRow(IF Truthy(S.ent[id].row)
                                      THEN freeEntry(S, S.ent[id].row, id, Master)
                                      ELSE S,
                                      row, id),
                               row, id, Master),
                    S.ent[id], row)

\* A search that gives the last row of the grid when no row is free, without
\* adding one.
AnyRowNoNewRow(S, ref, r) ==
    IF r.err # NoErr THEN [S |-> Throw(S, r.err), v |-> Undef]
    ELSE IF r.v = Undef THEN [S |-> S, v |-> Len(GridOf(S, ref)) - 1]
    ELSE [S |-> S, v |-> r.v]

\* _getAnyRow(start, end, entry) for the span of entry id: [S, v]
AnyRow(S, ref, r) ==
    IF r.err # NoErr THEN [S |-> Throw(S, r.err), v |-> Undef]
    ELSE IF r.v = Undef
    THEN [S |-> SetGrid(S, ref, addGridRow(GridOf(S, ref))), v |-> Len(GridOf(S, ref))]
    ELSE [S |-> S, v |-> r.v]

getAnyRow(S, id, ref) ==
    IF ~Ok(S) THEN [S |-> S, v |-> Undef]
    ELSE IF SpanErr(S.ent[id]) THEN [S |-> Throw(S, ErrNotAYear), v |-> Undef]
    ELSE AnyRow(S, ref, checkGridRange(X1(S.ent[id]), X2(S.ent[id]), 0,
                                       Len(GridOf(S, ref)) - 1, GridOf(S, ref)))

\* _createGrid(entries) for the entries named by the sequence cs: [g, err]
RECURSIVE BlockAll(_, _, _, _)
BlockAll(E, cs, k, r) ==
    IF k > Len(cs) \/ r.err # NoErr THEN r
    ELSE LET e == E[cs[k]]
         IN  IF ~Truthy(e.row) THEN BlockAll(E, cs, k + 1, r)
             ELSE IF SpanErr(e) THEN [g |-> r.g, err |-> ErrNotAYear]
             ELSE IF markGridRowErr(e.row, X1(e), X2(e), r.g) # NoErr
                  THEN [g |-> r.g, err |-> markGridRowErr(e.row, X1(e), X2(e), r.g)]
             ELSE BlockAll(E, cs, k + 1,
                           [g |-> blockGridRow(e.row, X1(e), X2(e), r.g), err |-> NoErr])

createGrid(E, cs) ==
    LET setRows == {E[cs[k]].row : k \in {j \in 1..Len(cs) : Truthy(E[cs[j]].row)}}
        rows == IF setRows = {} THEN 1
                ELSE (CHOOSE m \in setRows : \A n \in setRows : n <= m) + 1
    IN  BlockAll(E, cs, 1, [g |-> [i \in 1..rows |-> EmptyRow], err |-> NoErr])

\* _makeGridRelative: the number of leading rows it removes.
RECURSIVE LeadingFree(_, _)
LeadingFree(g, r) ==
    IF r < Len(g) - 1 /\ checkGridRow(r, 0, XLength - 1, g)
    THEN LeadingFree(g, r + 1) ELSE r

makeGridRelative(g) == SubSeq(g, LeadingFree(g, 0) + 1, Len(g))

(***************************************************************************)
(* Phase 1: _calculateClusterPositions.  rowTemp is carried as the         *)
(* function tmp, since the method deletes the property again before it     *)
(* returns.                                                                *)
(***************************************************************************)
\* The loop "Arbitrarily assign remaining" over the entries rem, from the k-th:
\* [S, tmp]
RECURSIVE AssignRemaining(_, _, _, _, _)

\* One turn: the entry c gets the row r.v of the cluster grid of id.
Remaining(r, id, rem, k, tmp) ==
    AssignRemaining(blockEntry(r.S, r.v, rem[k], id), id, rem, k + 1,
                    [tmp EXCEPT ![rem[k]] = r.v])

AssignRemaining(S, id, rem, k, tmp) ==
    IF k > Len(rem) \/ ~Ok(S) THEN [S |-> S, tmp |-> tmp]
    ELSE Remaining(getAnyRow(S, rem[k], id), id, rem, k, tmp)

\* "If any rows are already assigned": the rowTemp that the last of the
\* cluster members with a row leaves to the master entry (Undef if none has).
Preset(S, cl, diff) ==
    LET placed == SelectSeq(cl, LAMBDA c : Truthy(S.ent[c].row))
    IN  IF Len(placed) > 0 THEN S.ent[placed[Len(placed)]].row - diff ELSE Undef

\* "First, set the master entry": [S, v], v the rowTemp of the master entry.
MasterSet(m, id) == [S |-> blockEntry(m.S, m.v, id, id), v |-> m.v]

\* The relativeRows of the cluster members, from their rowTemp a.tmp.
SetRelative(a, id) ==
    IF ~Ok(a.S) THEN a.S
    ELSE [a.S EXCEPT !.ent =
            [i \in Ids |->
                IF i \in Range(a.S.ent[id].cluster)
                THEN [a.S.ent[i] EXCEPT !.rel[id] =
                        [row |-> a.tmp[i], relative |-> a.tmp[i] - a.tmp[id]]]
                ELSE a.S.ent[i]]]

\* "Arbitrarily assign remaining", once the master entry has its rowTemp m.v.
AssignFrom(m, id) ==
    LET tmp0 == [i \in Ids |-> IF i = id THEN m.v ELSE Undef]
    IN  SetRelative(AssignRemaining(m.S, id,
                                    SelectSeq(m.S.ent[id].cluster,
                                              LAMBDA c : tmp0[c] = Undef),
                                    1, tmp0),
                    id)

\* _calculateClusterPositions once gridAbs = abs.g is made.
Calculated(S, id, abs) ==
    LET rel == makeGridRelative(abs.g)
        S1 == [S EXCEPT !.ent[id].grid = rel]
        preset == Preset(S, S.ent[id].cluster, Len(abs.g) - Len(rel))
    IN  IF abs.err # NoErr THEN Throw(S, abs.err)
        ELSE AssignFrom(IF preset # Undef THEN [S |-> S1, v |-> preset]
                        ELSE MasterSet(getAnyRow(S1, id, id), id),
                        id)

calculateClusterPositions(S, id) ==
    IF ~Ok(S) THEN S
    ELSE Calculated(S, id, createGrid(S.ent, S.ent[id].cluster))

(***************************************************************************)
(* Fitting a cluster grid into the master grid.                            *)
(***************************************************************************)
\* A GridCheck: fit, row (Null for null), count.
GridCheck(fit, row, count) == [fit |-> fit, row |-> row, count |-> count]

\* The rows of grid1 that fit from `row` on in grid2, counted as both loops of
\* _checkFitInGrid count them: the first j that fails, or all of grid1.
FitCount(g1, g2, row) ==
    MinOf({j \in 1..(Len(g1) - 1) :
              \/ row + j < 0 \/ row + j >= Len(g2)
              \/ ~compareGridRows(g1[j + 1], g2, row + j)}
          \cup {Len(g1)})

\* _checkFitInGrid(grid1, grid2, row): [r, err]
checkFitInGrid(g1, g2, row) ==
    LET pinned == row # Null /\ compareGridRows(g1[1], g2, row)
        I == {i \in 0..(Len(g2) - 1) : compareGridRows(g1[1], g2, i)}
    IN  IF row # Null /\ compareGridRowsErr(g1[1], g2, row) # NoErr
        THEN [r |-> GridCheck(FALSE, Null, 0), err |-> compareGridRowsErr(g1[1], g2, row)]
        ELSE IF pinned
        THEN [r |-> GridCheck(FitCount(g1, g2, row) = Len(g1), row, FitCount(g1, g2, row)),
              err |-> NoErr]
        ELSE IF I # {}
        THEN [r |-> GridCheck(FitCount(g1, g2, MinOf(I)) = Len(g1), MinOf(I),
                              FitCount(g1, g2, MinOf(I))),
              err |-> NoErr]
        ELSE [r |-> GridCheck(FALSE, Null, 0), err |-> NoErr]

\* A resize of the grid to exactly n rows, which drops the rows beyond n.
GrowToTrimmed(g, n) ==
    IF Len(g) >= n THEN SubSeq(g, 1, n)
    ELSE g \o [i \in 1..(n - Len(g)) |-> EmptyRow]

\* this._addGridRow() until the master grid has n rows
RECURSIVE GrowTo(_, _)
GrowTo(g, n) == IF Len(g) >= n THEN g ELSE GrowTo(addGridRow(g), n)

\* The free / block of the cluster grid for the members that have a row.
RECURSIVE MarkPlaced(_, _, _, _, _)
MarkPlaced(S, id, cs, k, state) ==
    IF k > Len(cs) \/ ~Ok(S) THEN S
    ELSE MarkPlaced(markEntry(S, S.ent[cs[k]].rel[id].row, cs[k], state, id),
                    id, cs, k + 1, state)

\* The cluster members that have a row.
Placed(S, id) == SelectSeq(S.ent[id].cluster, LAMBDA b : Truthy(S.ent[b].row))

\* entry.row - entry.relativeRows[entry.id].row, or null
Position(S, id) ==
    IF Truthy(S.ent[id].row) THEN S.ent[id].row - S.ent[id].rel[id].row ELSE Null

\* this._checkFitInGrid(entry.grid, this._grid, position)
CheckFit(S, id) == checkFitInGrid(S.ent[id].grid, S.grid, Position(S, id))

\* _fitCluster after its third check r: "Block the cluster grid again".
FitBlocked(S, id, r) ==
    IF r.err # NoErr THEN [S |-> Throw(S, r.err), r |-> r.r]
    ELSE [S |-> MarkPlaced(S, id, Placed(S, id), 1, TRUE), r |-> r.r]

\* _fitCluster after its second check r: "If there isn't even space for the
\* first row, and we're not anchored anywhere, add rows for the whole group".
FitGroup(S, id, r) ==
    IF r.err # NoErr THEN [S |-> Throw(S, r.err), r |-> r.r]
    ELSE IF r.r.row = Null /\ ~Truthy(S.ent[id].row)
    THEN FitBlocked([S EXCEPT !.grid = GrowTo(@, Len(S.grid) + Len(S.ent[id].grid))], id,
                    checkFitInGrid(S.ent[id].grid,
                                   GrowTo(S.grid, Len(S.grid) + Len(S.ent[id].grid)),
                                   Position(S, id)))
    ELSE FitBlocked(S, id, CheckFit(S, id))

\* _fitCluster after its first check r: "If a row was requested and grid1
\* falls off the end of grid2 ... we can add rows to get a fit".
FitRequested(S, id, r) ==
    IF r.err # NoErr THEN [S |-> Throw(S, r.err), r |-> r.r]
    ELSE IF r.r.row > 0
    THEN FitGroup([S EXCEPT !.grid = GrowTo(@, Len(S.ent[id].grid) + r.r.row)], id,
                  checkFitInGrid(S.ent[id].grid,
                                 GrowTo(S.grid, Len(S.ent[id].grid) + r.r.row),
                                 Position(S, id)))
    ELSE FitGroup(S, id, CheckFit(S, id))

\* _fitCluster once the cluster grid is freed of the members that have a row.
FitFreed(S, id) ==
    IF ~Ok(S) THEN [S |-> S, r |-> GridCheck(FALSE, Null, 0)]
    ELSE FitRequested(S, id, CheckFit(S, id))

\* _fitCluster(entry): [S, r]
fitCluster(S, id) ==
    IF ~Ok(S) THEN [S |-> S, r |-> GridCheck(FALSE, Null, 0)]
    ELSE FitFreed(MarkPlaced([S EXCEPT !.grid = GrowTo(@, Len(S.ent[id].grid))],
                             id, Placed(S, id), 1, FALSE),
                  id)

(***************************************************************************)
(* Moving entries: _shuntClusterEntries, _shiftGridEntries, _freePosition, *)
(* _findBetterRelativePosition, _adjustCluster, _forceCluster.             *)
(***************************************************************************)
InsertAt(s, k, x) == SubSeq(s, 1, k) \o <<x>> \o SubSeq(s, k + 1, Len(s))

\* The loop of _shuntClusterEntries over the cluster, from the k-th member.
RECURSIVE ShuntRows(_, _, _, _, _)
ShuntRows(S, id, row, count, k) ==
    LET cl == S.ent[id].cluster
        c == cl[k]
        r == S.ent[c].rel[id].row
    IN  IF k > Len(cl) THEN S
        ELSE ShuntRows(IF r >= row THEN [S EXCEPT !.ent[c].rel[id].row = r + count] ELSE S,
                       id, row, count, k + 1)

\* _shuntClusterEntries(row, count, entry), called with count = 1
shuntClusterEntries(S, row, count, id) ==
    LET g == S.ent[id].grid
        at == IF row > Len(g) THEN Len(g) ELSE row
        S1 == [S EXCEPT !.ent[id].grid = InsertAt(g, at, EmptyRow)]
    IN  IF ~Ok(S) \/ count = 0 THEN S ELSE ShuntRows(S1, id, row, count, 1)

\* _shiftGridEntries(row, x1, x2, grid) on the master grid.  `aff` is the
\* array `affected`, filtered when the call starts.
RECURSIVE shiftGridEntries(_, _, _, _)
RECURSIVE ShiftAffected(_, _, _, _)

\* this._assignRow(entry.row*1 + 1, entry)
MoveDown(S, id) == IF Ok(S) THEN assignRow(S, S.ent[id].row + 1, id) ELSE S

\* One turn of the loop over `affected`, once the row below exists: the
\* entries in the way on it are shifted first, then the entry moves down.
ShiftOne(S, row, id) ==
    IF checkGridRowErr(row + 1, X1(S.ent[id]), X2(S.ent[id]), S.grid) # NoErr
    THEN Throw(S, checkGridRowErr(row + 1, X1(S.ent[id]), X2(S.ent[id]), S.grid))
    ELSE MoveDown(IF checkGridRow(row + 1, X1(S.ent[id]), X2(S.ent[id]), S.grid)
                  THEN S
                  ELSE shiftGridEntries(S, row + 1, X1(S.ent[id]), X2(S.ent[id])),
                  id)

ShiftAffected(S, row, aff, k) ==
    IF k > Len(aff) \/ ~Ok(S) THEN S
    ELSE IF SpanErr(S.ent[aff[k]]) THEN Throw(S, ErrNotAYear)
    ELSE ShiftAffected(ShiftOne(IF row + 1 >= Len(S.grid)
                                THEN [S EXCEPT !.grid = addGridRow(S.grid)]
                                ELSE S,
                                row, aff[k]),
                       row, aff, k + 1)

shiftGridEntries(S, row, x1, x2) ==
    LET onRow == SelectSeq(entries, LAMBDA i : S.ent[i].row = row)
        aff == SelectSeq(onRow, LAMBDA i : X2(S.ent[i]) >= x1 /\ X1(S.ent[i]) <= x2)
    IN  IF ~Ok(S) THEN S
        ELSE IF \E k \in 1..Len(onRow) : SpanErr(S.ent[onRow[k]]) THEN Throw(S, ErrNotAYear)
        ELSE ShiftAffected(S, row, aff, 1)

\* _freePosition(row, entry)
freePosition(S, row, id) ==
    LET e == S.ent[id]
        cerr == checkGridRowErr(row, X1(e), X2(e), S.grid)
    IN  IF ~Ok(S) THEN S
        ELSE IF e.row = row THEN S
        ELSE IF SpanErr(e) THEN Throw(S, ErrNotAYear)
        ELSE IF cerr # NoErr THEN Throw(S, cerr)
        ELSE IF ~checkGridRow(row, X1(e), X2(e), S.grid)
             THEN shiftGridEntries(S, row, X1(e), X2(e))
        ELSE S

\* The sum of a function over a set of ids.
RECURSIVE SumOver(_, _)
SumOver(f, D) ==
    IF D = {} THEN 0
    ELSE LET d == CHOOSE x \in D : TRUE IN f[d] + SumOver(f, D \ {d})

\* The keys of entry.relativeRows
RelKeys(e) == {k \in Ids : e.rel[k].row # Undef}

\* "Check outcome accuracy": the deviation of an entry, the sum over its
\* relativeRows of |relative - actual|.
Deviation(E, i) ==
    SumOver([k \in Ids |-> Abs(E[i].rel[k].relative - (E[i].row - E[k].row))],
            RelKeys(E[i]))

\* The preference that _findBetterRelativePosition adds up.
Preference(S, id) ==
    LET e == S.ent[id]
    IN  SumOver([k \in Ids |-> IF Truthy(S.ent[k].row)
                                THEN (S.ent[k].row + e.rel[k].relative) - e.row
                                ELSE 0],
                RelKeys(e))

\* _findBetterRelativePosition(entry): [v, err], v = Undef for `false`
findBetterRelativePosition(S, id) ==
    LET e == S.ent[id]
        p == Preference(S, id)
    IN  IF ~Truthy(e.row) THEN [v |-> Undef, err |-> NoErr]
        ELSE IF SpanErr(e) THEN [v |-> Undef, err |-> ErrNotAYear]
        ELSE checkGridRange(X1(e), X2(e),
                            IF p > 0 THEN e.row ELSE e.row + p,
                            IF p > 0 THEN e.row + p ELSE e.row,
                            S.grid)

\* _adjustCluster(entry), from the k-th member of the cluster.  phase3 tells
\* whether the call is the one of Phase 3 (and not the one of _forceCluster).
RECURSIVE adjustCluster(_, _, _, _)

\* The record of a move made in Phase 3.
Moved(S, c) == IF Ok(S) THEN [S EXCEPT !.adj = @ \cup {c}] ELSE S

\* The record of the deviation of c before the move (in state S0) and after.
Deviated(S0, S, c) ==
    IF Ok(S)
    THEN [S EXCEPT !.devs = @ \cup {<<c, Deviation(S0.ent, c), Deviation(S.ent, c)>>}]
    ELSE S

\* The move of the cluster member c to the better row r.v, if there is one.
Adjusted(S, c, r, phase3) ==
    IF r.err # NoErr THEN Throw(S, r.err)
    ELSE IF ~Truthy(r.v) THEN S
    ELSE IF phase3 /\ r.v # S.ent[c].row
    THEN Deviated(S, Moved(assignRow(S, r.v, c), c), c)
    ELSE assignRow(S, r.v, c)

adjustCluster(S, id, k, phase3) ==
    IF k > Len(S.ent[id].cluster) \/ ~Ok(S) THEN S
    ELSE adjustCluster(Adjusted(S, S.ent[id].cluster[k],
                                findBetterRelativePosition(S, S.ent[id].cluster[k]),
                                phase3),
                       id, k + 1, phase3)

\* The loops of _forceCluster over the rows before and after the master.
RECURSIVE ForceRows(_, _, _, _, _)
ForceRows(S, id, es, diff, k) ==
    IF k > Len(es) \/ ~Ok(S) THEN S
    ELSE ForceRows(freePosition(S, S.ent[es[k]].rel[id].row + diff, es[k]),
                   id, es, diff, k + 1)

\* The cluster members whose relative row is before (dir = -1) or after
\* (dir = 1) the one of the master entry.
Beside(S, id, dir) ==
    SelectSeq(S.ent[id].cluster,
              LAMBDA c : (S.ent[c].rel[id].row - S.ent[id].rel[id].row) * dir > 0)

\* _forceCluster(entry): [S, r]
forceCluster(S, id) ==
    LET entry == S.ent[id]
        diff == entry.row - entry.rel[id].row
    IN  IF ~Ok(S) THEN [S |-> S, r |-> GridCheck(FALSE, Null, 0)]
        ELSE IF ~Truthy(entry.row)
             THEN [S |-> Throw(S, ErrNoForceRow), r |-> GridCheck(FALSE, Null, 0)]
        ELSE [S |-> adjustCluster(
                      ForceRows(ForceRows(S, id, Beside(S, id, -1), diff, 1),
                                id, Beside(S, id, 1), diff, 1),
                      id, 1, FALSE),
              r |-> GridCheck(TRUE, diff, Len(entry.grid))]

(***************************************************************************)
(* Phase 2: _findRelatedClusterSource and _positionCluster.                *)
(***************************************************************************)
\* _findRelatedClusterSource(entry): [v, err].  The clusters do not change, so
\* a call for an entry that is already on the call stack (seen) never returns;
\* the runtime ends it with ErrStack.
RECURSIVE findRelatedClusterSource(_, _, _)
RECURSIVE FollowSteps(_, _, _, _, _, _)
FollowSteps(E, id, steps, k, go, seen) ==
    LET entry == E[id]
        step == steps[k]
        r == findRelatedClusterSource(E, step, seen \cup {id})
    IN  IF k > Len(steps) THEN [v |-> go, err |-> NoErr]
        ELSE IF step = entry.merge /\ entry.split # NoId THEN [v |-> go, err |-> NoErr]
        ELSE IF step \in seen \cup {id} THEN [v |-> go, err |-> ErrStack]
        ELSE IF r.err # NoErr THEN r
        ELSE FollowSteps(E, id, steps, k + 1, r.v, seen)

findRelatedClusterSource(E, id, seen) ==
    LET steps == SelectSeq(entries, LAMBDA i : id \in Range(E[i].cluster) /\ i # id)
    IN  FollowSteps(E, id, steps, 1, id, seen)

\* if (c.cluster) c.anchor = row
Anchored(S, c, row) ==
    IF Ok(S) /\ S.ent[c].cluster # <<>> THEN [S EXCEPT !.ent[c].anchor = row] ELSE S

\* One turn of the assignment loop of _positionCluster, for the member c.
AssignMember(S, c, row) ==
    Anchored(IF S.ent[c].row # row THEN assignRow(S, row, c) ELSE S, c, row)

\* The assignment loop of _positionCluster, from the k-th cluster member.
RECURSIVE AssignCluster(_, _, _, _)
AssignCluster(S, id, base, k) ==
    LET c == S.ent[S.ent[id].cluster[k]]
    IN  IF k > Len(S.ent[id].cluster) \/ ~Ok(S) THEN S
        ELSE AssignCluster(AssignMember(S, c.id,
                                        IF Truthy(c.row) THEN c.row
                                        ELSE base + c.rel[id].row),
                           id, base, k + 1)

\* The clusters linked to the one of entry id.
Linked(S, id) ==
    SelectSeq(S.ent[id].cluster, LAMBDA c : c # id /\ S.ent[c].cluster # <<>>)

\* _positionCluster(entry).  stack holds the entries of the calls in progress:
\* which linked clusters a call recurses into never changes, so a call for an
\* entry that is on the stack repeats without end (ErrStack).
RECURSIVE positionCluster(_, _, _)
RECURSIVE PositionLinked(_, _, _, _)
PositionLinked(S, linked, k, stack) ==
    IF k > Len(linked) \/ ~Ok(S) THEN S
    ELSE PositionLinked(positionCluster(S, linked[k], stack), linked, k + 1, stack)

\* "if (space.fit)": the rows of the members, then the linked clusters.
Fitted(b, id, stack) ==
    PositionLinked(IF b.r.fit THEN AssignCluster(b.S, id, b.r.row, 1) ELSE b.S,
                   Linked(b.S, id), 1, stack)

\* "Try fitting if we shunt the first failed row of the cluster grid."
Shunted(a, id, stack) ==
    Fitted(IF a.r.fit THEN a
           ELSE fitCluster(shuntClusterEntries(a.S, a.r.count, 1, id), id),
           id, stack)

\* "If a partial fit was returned but the master grid isn't long enough from
\* that point, extend it."
Extended(f, id) ==
    IF f.r.row # Null
    THEN [f.S EXCEPT !.grid = GrowTo(@, Len(f.S.ent[id].grid) + f.r.row)]
    ELSE f.S

\* "if (!space.fit && entry.row)": fit again, then force.
Forced(f, id, stack) ==
    Shunted(IF ~f.r.fit /\ Truthy(f.S.ent[id].row)
            THEN forceCluster(fitCluster(Extended(f, id), id).S, id)
            ELSE f,
            id, stack)

\* _positionCluster once the id is pushed on this._order and the root logged.
Pushed(S, id, stack, src) ==
    IF src.err # NoErr THEN Throw(S, src.err)
    ELSE IF S.ent[id].grid = <<>> THEN Throw(S, ErrNoGrid)
    ELSE Forced(fitCluster(S, id), id, stack \cup {id})

positionCluster(S, id, stack) ==
    IF ~Ok(S) THEN S
    ELSE IF id \in stack THEN Throw(S, ErrStack)
    ELSE Pushed([S EXCEPT !.order = Append(@, id)], id, stack,
                findRelatedClusterSource(S.ent, id, {}))

(***************************************************************************)
(* The constructor and _position as a state machine.  pc is the step that  *)
(* comes next; "done" is the constructor returning and "failed" a throw.   *)
(***************************************************************************)
Cur == [ent |-> ent, grid |-> grid, order |-> order, err |-> err,
        adj |-> adj, stale |-> stale, devs |-> devs]

\* The state S becomes the next state; a throw ends the pass.
Becomes(S, next) ==
    /\ ent' = S.ent
    /\ grid' = S.grid
    /\ order' = S.order
    /\ err' = S.err
    /\ adj' = S.adj
    /\ stale' = S.stale
    /\ devs' = S.devs
    /\ pc' = IF S.err # NoErr THEN "failed" ELSE next

NoEntry ==
    [id |-> NoId, start |-> Undef, end |-> Undef, split |-> NoId, merge |-> NoId,
     row |-> Undef, ids |-> <<>>, cluster |-> <<>>, grid |-> <<>>,
     rel |-> [k \in Ids |-> NoRel], anchor |-> Undef, deviation |-> Undef]

\* The entries with a cluster, in the order of this._entries.
Clustered == SelectSeq(entries, LAMBDA i : ent[i].cluster # <<>>)

\* The nodes of one input: a span, the relations and a manual row for each.
Years == YearStart..YearEnd
Spans == {sp \in Years \X Years : sp[1] <= sp[2]}
ManualRows == {Undef} \cup 0..MaxManualRow
Node(i, sp, be, s, m, r) ==
    [id |-> i, start |-> sp[1], end |-> sp[2], become |-> be, split |-> s,
     merge |-> m, row |-> r]

\* The entry of id i among the entries es that _readEntries returned.
Loaded(es, i) ==
    IF \E k \in 1..Len(es) : es[k].id = i
    THEN LET e == es[CHOOSE k \in 1..Len(es) : es[k].id = i]
         IN  [NoEntry EXCEPT !.id = e.id, !.start = e.start, !.end = e.end,
                             !.split = e.split, !.merge = e.merge, !.row = e.row,
                             !.ids = e.ids, !.cluster = e.cluster]
    ELSE NoEntry

Read(r) ==
    /\ entries' = [i \in 1..Len(r.es) |-> r.es[i].id]
    /\ ent' = [i \in Ids |-> Loaded(r.es, i)]
    /\ err' = r.err
    /\ pc' = IF r.err # NoErr THEN "failed" ELSE "grid"

\* this._entries = this._readEntries(nodes)
ReadEntries ==
    /\ pc = "read"
    /\ Read(readEntries(nodes))
    /\ UNCHANGED <<nodes, grid, order, idx, passes, adj, stale, devs, out, first, settled, clash>>

\* this._grid = this._createGrid(this._entries)
Created(r) ==
    /\ grid' = r.g
    /\ err' = r.err
    /\ pc' = IF r.err # NoErr THEN "failed" ELSE "calc"

CreateGrid ==
    /\ pc = "grid"
    /\ Created(createGrid(ent, entries))
    /\ idx' = 1
    /\ UNCHANGED <<nodes, entries, ent, order, passes, adj, stale, devs, out, first, settled, clash>>

\* One turn of the loop of _position over the entries with a cluster.
CalculateClusterPositions ==
    /\ pc = "calc"
    /\ idx <= Len(Clustered)
    /\ Becomes(calculateClusterPositions(Cur, Clustered[idx]), "calc")
    /\ idx' = idx + 1
    /\ UNCHANGED <<nodes, entries, passes, out, first, settled, clash>>

CalculateDone ==
    /\ pc = "calc"
    /\ idx > Len(Clustered)
    /\ pc' = "position"
    /\ UNCHANGED <<nodes, entries, ent, grid, order, err, idx, passes, adj, stale, devs, out, first, settled, clash>>

\* The entries that the while loop of _position waits for.
Unplaced == SelectSeq(entries, LAMBDA i : ent[i].cluster # <<>> /\ ent[i].row = Undef)

\* this._positionCluster(this._findRelatedClusterSource(entry))
PositionRoot(S, src) ==
    IF src.err # NoErr THEN Throw(S, src.err) ELSE positionCluster(S, src.v, {})

\* One turn of the while loop of _position.
PositionCluster ==
    /\ pc = "position"
    /\ Len(Unplaced) > 0
    /\ passes < MaxPasses
    /\ Becomes(PositionRoot(Cur, findRelatedClusterSource(ent, Unplaced[1], {})),
               "position")
    /\ passes' = passes + 1
    /\ UNCHANGED <<nodes, entries, idx, out, first, settled, clash>>

\* The while loop ends; this._order.reverse()
PositionDone ==
    /\ pc = "position"
    /\ Len(Unplaced) = 0
    /\ order' = [i \in 1..Len(order) |-> order[Len(order) + 1 - i]]
    /\ idx' = 1
    /\ pc' = "adjust"
    /\ UNCHANGED <<nodes, entries, ent, grid, err, passes, adj, stale, devs, out, first, settled, clash>>

\* One turn of the loop over the reversed order (Phase 3).
AdjustCluster ==
    /\ pc = "adjust"
    /\ idx <= Len(order)
    /\ Becomes(adjustCluster(Cur, order[idx], 1, TRUE), "adjust")
    /\ idx' = idx + 1
    /\ UNCHANGED <<nodes, entries, passes, out, first, settled, clash>>

AdjustDone ==
    /\ pc = "adjust"
    /\ idx > Len(order)
    /\ pc' = "leftover"
    /\ UNCHANGED <<nodes, entries, ent, grid, order, err, idx, passes, adj, stale, devs, out, first, settled, clash>>

\* A pass that skips the loop "Any entries left".
LeftOverSkipped == SelectSeq(entries, LAMBDA i : FALSE)

\* The entries left over: those whose row is undefined.
LeftOver == SelectSeq(entries, LAMBDA i : ent[i].row = Undef)

\* this._assignRow(this._getAnyRow(entry.start, entry.end), entry)
AssignAny(r, id) == assignRow(r.S, r.v, id)

\* One turn of the loop "Any entries left".
PlaceLeftOver ==
    /\ pc = "leftover"
    /\ Len(LeftOver) > 0
    /\ Becomes(AssignAny(getAnyRow(Cur, LeftOver[1], Master), LeftOver[1]), "leftover")
    /\ UNCHANGED <<nodes, entries, idx, passes, out, first, settled, clash>>

LeftOverDone ==
    /\ pc = "leftover"
    /\ Len(LeftOver) = 0
    /\ pc' = "deviation"
    /\ UNCHANGED <<nodes, entries, ent, grid, order, err, idx, passes, adj, stale, devs, out, first, settled, clash>>

CheckOutcome ==
    /\ pc = "deviation"
    /\ ent' = [i \in Ids |->
                 IF i \in Range(entries) THEN [ent[i] EXCEPT !.deviation = Deviation(ent, i)]
                 ELSE ent[i]]
    /\ pc' = "apply"
    /\ UNCHANGED <<nodes, entries, grid, order, err, idx, passes, adj, stale, devs, out, first, settled, clash>>

\* _applyToNodes: the data-row of every node; getElementById(undefined) is null.
OwnIds(e) == IF e.ids # <<>> THEN Range(e.ids) ELSE {e.id}

ApplyToNodes ==
    /\ pc = "apply"
    /\ LET bad == \E k \in 1..Len(entries) : NoId \in OwnIds(ent[entries[k]])
           rowOf(n) ==
               LET K == {k \in 1..Len(entries) : n \in OwnIds(ent[entries[k]])}
               IN  IF K = {} THEN Undef
                   ELSE ent[entries[CHOOSE k \in K : \A j \in K : j <= k]].row
       IN  /\ out' = [n \in Ids |-> rowOf(n)]
           /\ err' = IF bad THEN ErrType ELSE NoErr
           /\ pc' = IF bad THEN "failed" ELSE "done"
    /\ UNCHANGED <<nodes, entries, ent, grid, order, idx, passes, adj, stale, devs, first, settled, clash>>

Start(ns) ==
    /\ nodes = ns
    /\ pc = "read"
    /\ entries = <<>>
    /\ ent = [i \in Ids |-> NoEntry]
    /\ grid = <<>>
    /\ order = <<>>
    /\ err = NoErr
    /\ idx = 1
    /\ passes = 0
    /\ adj = {}
    /\ stale = {}
    /\ devs = {}
    /\ out = [n \in Ids |-> Undef]
    /\ first = <<>>
    /\ settled = {}
    /\ clash = {}

\* Nodes handed over without the data-row they carry.
RerunInputCleared == [i \in DOMAIN nodes |-> [nodes[i] EXCEPT !.row = Undef]]

\* The nodes handed to the second construction: the very nodes of the first.
RerunInput == nodes

\* new DiagramPositioner(nodes, yearStart, yearEnd) once more, when the first
\* construction has returned or thrown: every field is set anew.
Rerun ==
    /\ pc \in {"done", "failed"}
    /\ first = <<>>
    /\ first' = <<[pc |-> pc, err |-> err, out |-> out]>>
    /\ nodes' = RerunInput
    /\ pc' = "read"
    /\ entries' = <<>>
    /\ ent' = [i \in Ids |-> NoEntry]
    /\ grid' = <<>>
    /\ order' = <<>>
    /\ err' = NoErr
    /\ idx' = 1
    /\ passes' = 0
    /\ adj' = {}
    /\ stale' = {}
    /\ devs' = {}
    /\ out' = [n \in Ids |-> Undef]
    /\ UNCHANGED <<settled, clash>>

Next ==
    \/ ReadEntries
    \/ CreateGrid
    \/ CalculateClusterPositions
    \/ CalculateDone
    \/ PositionCluster
    \/ PositionDone
    \/ AdjustCluster
    \/ AdjustDone
    \/ PlaceLeftOver
    \/ LeftOverDone
    \/ CheckOutcome
    \/ ApplyToNodes

(***************************************************************************)
(* The inputs of a layout pass.  A split or merge names another node (or   *)
(* possibly an id that no node has); a become names any node.              *)
(***************************************************************************)
Count(f, P(_)) == Cardinality({i \in DOMAIN f : P(f[i])})

\* The nodes of a document of NumNodes nodes.
Doc == 1..NumNodes

Relations(D, becomes, ghosts, maxLinks) ==
    {r \in [D -> [be : IF becomes THEN {NoId} \cup D ELSE {NoId},
                  s : {NoId} \cup D \cup (IF ghosts THEN {GhostId} ELSE {}),
                  m : {NoId} \cup D \cup (IF ghosts THEN {GhostId} ELSE {})]] :
        /\ \A i \in D : r[i].s # i /\ r[i].m # i
        /\ Count(r, LAMBDA x : x.be # NoId) + Count(r, LAMBDA x : x.s # NoId)
             + Count(r, LAMBDA x : x.m # NoId) <= maxLinks}

Manual(D, maxManual) ==
    {w \in [D -> ManualRows] : Count(w, LAMBDA x : x # Undef) <= maxManual}

\* The relations and manual rows checked: nodes linked by split and merge;
\* nodes with a manual row; nodes with become chains; nodes whose split or
\* merge names no node.
Shapes ==
    (Relations(Doc, FALSE, FALSE, MaxLinks) \X Manual(Doc, 0))
    \cup (Relations(Doc, FALSE, FALSE, 1) \X Manual(Doc, MaxManual))
    \cup (Relations(Doc, TRUE, FALSE, MaxLinks - 1) \X Manual(Doc, 0))
    \cup (Relations(Doc, FALSE, TRUE, 1) \X Manual(Doc, 0))

Input(sp, r, w) ==
    [i \in DOMAIN sp |-> Node(i, sp[i], r[i].be, r[i].s, r[i].m, w[i])]

\* The spans of nodes whose end may be earlier than their start, and the
\* relations checked with them: at most one link, which may be a become.
AnySpans == Years \X Years
ReversedShapes == Relations(Doc, TRUE, FALSE, 1) \X Manual(Doc, 0)

Init ==
    \/ \E sp \in [Doc -> Spans], sh \in Shapes : Start(Input(sp, sh[1], sh[2]))
    \/ \E sp \in [Doc -> AnySpans], sh \in ReversedShapes :
          Start(Input(sp, sh[1], sh[2]))

Spec == Init /\ [][Next]_vars

\* Documents of MaxNodes nodes: the nodes in the order of their start years,
\* spans of a year or more, no become and no manual row, at most WideLinks
\* relations, each split naming a node that exists in the year of the split
\* and each merge one that exists in the year of the merge.
Coherent(sp, r) ==
    \A i \in DOMAIN sp :
        /\ r[i].s # NoId => sp[r[i].s][1] <= sp[i][1] /\ sp[i][1] <= sp[r[i].s][2]
        /\ r[i].m # NoId => sp[r[i].m][1] <= sp[i][2] /\ sp[i][2] <= sp[r[i].m][2]

Wide == 1..MaxNodes
WideRelations == Relations(Wide, FALSE, FALSE, WideLinks)
WideSpans ==
    {sp \in [Wide -> {s \in Spans : s[1] < s[2]}] :
        \A i, j \in Wide : i < j => sp[i][1] <= sp[j][1]}

InitWide ==
    \E sp \in WideSpans, r \in WideRelations :
        /\ Coherent(sp, r)
        /\ Start(Input(sp, r, [i \in Wide |-> Undef]))

SpecWide == InitWide /\ [][Next]_vars

\* Two constructions, one after the other, over the same nodes.
NextTwice == Next \/ Rerun
SpecTwice == Init /\ [][NextTwice]_vars

\* Documents of MaxNodes nodes with become chains: spans of a year or more,
\* one or two becomes and at most one split, no manual row, a successor
\* starting where its predecessor ends.
ChainRelations ==
    {r \in [Wide -> [be : {NoId} \cup Wide, s : {NoId} \cup Wide, m : {NoId}]] :
        /\ \A i \in Wide : r[i].be # i /\ r[i].s # i
        /\ Count(r, LAMBDA x : x.be # NoId) \in 1..MaxChained
        /\ Count(r, LAMBDA x : x.s # NoId) <= 1}

ChainSpans == [Wide -> {s \in Spans : s[1] < s[2]}]

InitChains ==
    \E sp \in ChainSpans, r \in ChainRelations :
        /\ \A i \in Wide : r[i].be # NoId => sp[r[i].be][1] = sp[i][2]
        /\ Start(Input(sp, r, [i \in Wide |-> Undef]))

SpecChains == InitChains /\ [][Next]_vars

(***************************************************************************)
(* The positioner of setRows (the bundled build).  Its grid has one cell   *)
(* for each of the `years` of the timeline; data-row of the nodes is the   *)
(* variable `out`, this._grid is `grid`, and `order` is the order in which *)
(* setRows takes the entries.  The operators take and return a record T:   *)
(*   row      data-row of each node (Undef while it has none)              *)
(*   grid     this._grid                                                   *)
(*   err      the error thrown, NoErr while none is                        *)
(*   settled  the ids whose row is set and whose span has been blocked     *)
(*   clash    the pairs (e, q): the row found for e held, on one of the    *)
(*            cells of e's span, the span or buffer of the settled q       *)
(***************************************************************************)
SpaceRow == [i \in 1..SimpleYears |-> FALSE]

\* _createPositioner and the constructor: one row more than the highest
\* manual row, which counts as 1 at least.
NewGrid(ns) ==
    LET RECURSIVE Highest(_, _)
        Highest(k, rows) ==
            IF k > Len(ns) THEN rows
            ELSE Highest(k + 1, IF ns[k].row # Undef /\ ns[k].row > rows
                                THEN ns[k].row ELSE rows)
    IN  [y \in 1..(Highest(1, 1) + 1) |-> SpaceRow]

\* _checkGridSpace: slice(start, end) holds the cells of the row from start
\* up to end, as far as the row has them.
checkGridSpace(g, y, start, end) ==
    LET e2 == IF start = end THEN end + 1 ELSE end
    IN  \A c \in start..(e2 - 1) : c < SimpleYears => ~g[y + 1][c + 1]

\* The cells that _markGridSpace writes for a span: the span and "space
\* either end to keep entries from joining, if available".
MarkedCells(start, end) ==
    {c \in 0..(SimpleYears - 1) :
        \/ (start <= c /\ c < end)
        \/ (start > 0 /\ c = start - 1)
        \/ (end < SimpleYears - 1 /\ c = end)}

\* _markGridSpace, and with it _blockGridSpace and _freeGridSpace
markGridSpace(T, y, start, end, state) ==
    IF ~Ok(T) THEN T
    ELSE IF y < 0 \/ y >= Len(T.grid) THEN [T EXCEPT !.err = ErrMarkRow]
    ELSE [T EXCEPT !.grid[y + 1] =
             [i \in 1..SimpleYears |->
                 IF i - 1 \in MarkedCells(start, end) THEN state
                 ELSE T.grid[y + 1][i]]]

\* _findGridSpace: the grid (with a row added if no row is free) and the row.
findGridSpace(g, start, end) ==
    LET free == {y \in 0..(Len(g) - 1) : checkGridSpace(g, y, start, end)}
    IN  IF free # {} THEN [g |-> g, v |-> MinOf(free)]
        ELSE [g |-> Append(g, SpaceRow), v |-> Len(g)]

\* A nearest search that takes the upper of two rows equally near.
findNearestGridSpaceUpper(g, y, start, end) ==
    LET up == {b \in 0..y : checkGridSpace(g, b, start, end)}
        down == {a \in y..(Len(g) - 1) : checkGridSpace(g, a, start, end)}
        before == IF up = {} THEN -1 ELSE CHOOSE b \in up : \A c \in up : c <= b
        after == IF down = {} THEN Len(g) ELSE MinOf(down)
    IN  IF checkGridSpace(g, y, start, end) THEN [g |-> g, v |-> y]
        ELSE IF before = -1 /\ after = Len(g)
             THEN [g |-> Append(g, SpaceRow), v |-> Len(g)]
        ELSE IF after = Len(g) THEN [g |-> g, v |-> before]
        ELSE IF before = -1 THEN [g |-> g, v |-> after]
        ELSE IF y - before < after - y THEN [g |-> g, v |-> before]
        ELSE [g |-> g, v |-> after]

\* _findNearestGridSpace
findNearestGridSpace(g, y, start, end) ==
    LET up == {b \in 0..y : checkGridSpace(g, b, start, end)}
        down == {a \in y..(Len(g) - 1) : checkGridSpace(g, a, start, end)}
        before == IF up = {} THEN -1 ELSE CHOOSE b \in up : \A c \in up : c <= b
        after == IF down = {} THEN Len(g) ELSE MinOf(down)
    IN  IF checkGridSpace(g, y, start, end) THEN [g |-> g, v |-> y]
        ELSE IF before = -1 /\ after = Len(g)
             THEN [g |-> Append(g, SpaceRow), v |-> Len(g)]
        ELSE IF after = Len(g) THEN [g |-> g, v |-> before]
        ELSE IF before = -1 THEN [g |-> g, v |-> after]
        ELSE IF y - before <= after - y THEN [g |-> g, v |-> before]
        ELSE [g |-> g, v |-> after]

\* _calcGroupEnd
RECURSIVE calcGroupEnd(_, _)
calcGroupEnd(i, fuel) ==
    IF nodes[i].become # NoId /\ fuel > 0
    THEN calcGroupEnd(nodes[i].become, fuel - 1)
    ELSE nodes[i].end

\* The entries that i becomes, directly or by way of others.
RECURSIVE Successors(_, _)
Successors(i, fuel) ==
    IF nodes[i].become = NoId \/ fuel = 0 THEN {}
    ELSE {nodes[i].become} \cup Successors(nodes[i].become, fuel - 1)

SameChain(i, q) ==
    i = q \/ q \in Successors(i, Len(nodes)) \/ i \in Successors(q, Len(nodes))

\* The cells of the span that _checkGridSpace looks at.
SpanCells(start, end) == start..((IF start = end THEN end + 1 ELSE end) - 1)

\* "the space behind the entries we are forking to", for the fork target q
\* of i.
Behind(i, q) ==
    IF \E k \in DOMAIN nodes[i].fork : nodes[i].fork[k] = q
    THEN {X1(nodes[q]) - 1} ELSE {}

\* The settled entries outside the chain of i that hold, on row r, a cell of
\* the span start..end.
ClashesAt(T, i, r, start, end) ==
    {<<i, q>> : q \in {q \in T.settled :
        /\ ~SameChain(i, q)
        /\ T.row[q] = r
        /\ (SpanCells(start, end) \cap MarkedCells(X1(nodes[q]), X2(nodes[q])))
               \ Behind(i, q) # {}}}

\* _setGroupRow
RECURSIVE setGroupRow(_, _, _)
setGroupRow(T, i, fuel) ==
    IF ~Ok(T) \/ nodes[i].become = NoId \/ fuel = 0 THEN T
    ELSE LET next == nodes[i].become
             T1 == IF T.row[next] # Undef
                   THEN markGridSpace(T, T.row[next], X1(nodes[next]),
                                      X2(nodes[next]), FALSE)
                   ELSE T
         IN  setGroupRow([T1 EXCEPT !.row[next] = T.row[i],
                                    !.settled = @ \cup {next}],
                         next, fuel - 1)

\* The entry that _setEntryRow seeks for entry i: the one it splits from,
\* the one it merges with ("Prevent infinite recursion if merging with an
\* entry which split from this one"), the first it forks to.
Seek(i) ==
    IF nodes[i].fork # <<>> THEN nodes[i].fork[1]
    ELSE IF nodes[i].merge # NoId /\ nodes[nodes[i].merge].split # i
         THEN nodes[i].merge
    ELSE nodes[i].split

\* `near` of _setEntryRow once the entries sought have a row.
Near(T, i) ==
    IF nodes[i].fork # <<>>
    THEN (T.row[nodes[i].fork[1]] + T.row[nodes[i].fork[2]] + 1) \div 2
    ELSE IF Seek(i) # NoId THEN T.row[Seek(i)]
    ELSE Null

\* _calcEntryRow
calcEntryRow(T, i, start, end, near) ==
    IF T.row[i] # Undef THEN [g |-> T.grid, v |-> T.row[i]]
    ELSE IF near # Null /\ near # 0
         THEN findNearestGridSpace(T.grid, near, start, end)
    ELSE findGridSpace(T.grid, start, end)

\* _setEntryRow from the row f.v that _calcEntryRow returned: the row is
\* set, the chain follows, and the span is blocked inside try/catch.
Settle(T, i, start, end, f) ==
    LET T1 == [T EXCEPT !.grid = f.g,
                        !.row[i] = f.v,
                        !.settled = @ \cup {i},
                        !.clash = @ \cup (IF T.row[i] = Undef
                                          THEN ClashesAt(T, i, f.v, start, end)
                                          ELSE {})]
        T2 == setGroupRow(T1, i, Len(nodes))
    IN  IF Ok(T2) THEN [markGridSpace(T2, f.v, start, end, TRUE) EXCEPT !.err = NoErr]
        ELSE T2

SettleEntry(T, i, start, end) ==
    IF ~Ok(T) THEN T
    ELSE Settle(T, i, start, end, calcEntryRow(T, i, start, end, Near(T, i)))

\* _freeGridSpace and _blockGridSpace of the cell behind the two fork
\* targets of i.
MarkBehind(T, i, state) ==
    LET a == nodes[i].fork[1]
        b == nodes[i].fork[2]
    IN  IF ~Ok(T) THEN T
        ELSE markGridSpace(markGridSpace(T, T.row[a], X1(nodes[a]) - 1,
                                         X1(nodes[a]) - 1, state),
                           T.row[b], X1(nodes[b]) - 1, X1(nodes[b]) - 1, state)

\* _setEntryRow; the call nests once for each entry sought that has no row,
\* without end if the entries seek each other.
RECURSIVE setEntryRow(_, _, _)
Sought(T, s, fuel) ==
    IF Ok(T) /\ s # NoId /\ T.row[s] = Undef THEN setEntryRow(T, s, fuel - 1) ELSE T

setEntryRow(T, i, fuel) ==
    IF ~Ok(T) THEN T
    ELSE IF fuel = 0 THEN [T EXCEPT !.err = ErrStack]
    ELSE IF nodes[i].fork = <<>>
         THEN SettleEntry(Sought(T, Seek(i), fuel), i, X1(nodes[i]),
                          yearToGrid(calcGroupEnd(i, Len(nodes))))
    ELSE MarkBehind(
             SettleEntry(
                 MarkBehind(Sought(Sought(T, nodes[i].fork[1], fuel),
                                   nodes[i].fork[2], fuel),
                            i, FALSE),
                 i, X1(nodes[i]), yearToGrid(calcGroupEnd(i, Len(nodes)))),
             i, TRUE)

\* setRows takes the entries with a data-row first, then the others.
ManualFirst(ns) ==
    SelectSeq([k \in 1..Len(ns) |-> k], LAMBDA k : ns[k].row # Undef)
    \o SelectSeq([k \in 1..Len(ns) |-> k], LAMBDA k : ns[k].row = Undef)

SimpleCur ==
    [row |-> out, grid |-> grid, err |-> err, settled |-> settled, clash |-> clash]

\* One turn of the loops of setRows.
SetEntryRow ==
    /\ pc = "setRows"
    /\ idx <= Len(order)
    /\ LET T == setEntryRow(SimpleCur, order[idx], Len(nodes) + 1)
       IN  /\ out' = T.row
           /\ grid' = T.grid
           /\ err' = T.err
           /\ settled' = T.settled
           /\ clash' = T.clash
           /\ pc' = IF Ok(T) THEN "setRows" ELSE "threw"
    /\ idx' = idx + 1
    /\ UNCHANGED <<nodes, entries, ent, order, passes, adj, stale, devs, first>>

\* "return this.rows"
SetRowsReturn ==
    /\ pc = "setRows"
    /\ idx > Len(order)
    /\ pc' = "returned"
    /\ UNCHANGED <<nodes, entries, ent, grid, order, err, idx, passes, adj, stale,
                   devs, out, first, settled, clash>>

NextSimple == SetEntryRow \/ SetRowsReturn

\* The documents given to setRows: MaxNodes nodes of a year or more, each
\* with at most one relation (a become, a split, a merge or a fork), at most
\* SimpleLinks relations in all and no manual row, or one become or fork
\* and one manual row.  A successor starts where its predecessor ends, fork targets
\* start where the forking entry ends, and split and merge name a node that
\* exists in that year.
SimpleLink ==
    [k : {"none"}, a : {NoId}, b : {NoId}]
    \cup [k : {"become", "split", "merge"}, a : Wide, b : {NoId}]
    \cup [k : {"fork"}, a : Wide, b : Wide]

SimpleRelations(maxLinks) ==
    {r \in [Wide -> SimpleLink] :
        /\ \A i \in Wide : r[i].a # i /\ r[i].b # i /\ (r[i].k = "fork" => r[i].a # r[i].b)
        /\ \A i, j \in Wide : i # j /\ r[i].k = "become" /\ r[j].k = "become"
                                  => r[i].a # r[j].a
        /\ Count(r, LAMBDA x : x.k # "none") <= maxLinks}

SimpleShapes ==
    (SimpleRelations(SimpleLinks) \X Manual(Wide, 0))
    \cup ({r \in SimpleRelations(1) : \A i \in Wide : r[i].k \notin {"split", "merge"}}
             \X Manual(Wide, MaxManual))

SimpleSpans ==
    [Wide -> {s \in (YearStart..(YearStart + SimpleYears))
                      \X (YearStart..(YearStart + SimpleYears)) : s[1] < s[2]}]

SimpleCoherent(sp, r) ==
    \A i \in Wide :
        /\ r[i].k = "become" => sp[r[i].a][1] = sp[i][2]
        /\ r[i].k = "fork" => sp[r[i].a][1] = sp[i][2] /\ sp[r[i].b][1] = sp[i][2]
        /\ r[i].k = "split" => sp[r[i].a][1] <= sp[i][1] /\ sp[i][1] <= sp[r[i].a][2]
        /\ r[i].k = "merge" => sp[r[i].a][1] <= sp[i][2] /\ sp[i][2] <= sp[r[i].a][2]

SimpleNode(i, sp, l, w) ==
    [id |-> i, start |-> sp[1], end |-> sp[2],
     become |-> IF l.k = "become" THEN l.a ELSE NoId,
     split |-> IF l.k = "split" THEN l.a ELSE NoId,
     merge |-> IF l.k = "merge" THEN l.a ELSE NoId,
     fork |-> IF l.k = "fork" THEN <<l.a, l.b>> ELSE <<>>,
     row |-> w]

StartSimple(ns) ==
    /\ nodes = ns
    /\ pc = "setRows"
    /\ entries = <<>>
    /\ ent = [i \in Ids |-> NoEntry]
    /\ grid = NewGrid(ns)
    /\ order = ManualFirst(ns)
    /\ err = NoErr
    /\ idx = 1
    /\ passes = 0
    /\ adj = {}
    /\ stale = {}
    /\ devs = {}
    /\ out = [n \in Ids |-> ns[n].row]
    /\ first = <<>>
    /\ settled = {}
    /\ clash = {}

InitSimple ==
    \E sp \in SimpleSpans, sh \in SimpleShapes :
        /\ SimpleCoherent(sp, sh[1])
        /\ StartSimple([i \in Wide |-> SimpleNode(i, sp[i], sh[1][i], sh[2][i])])

SpecSimple == InitSimple /\ [][NextSimple]_vars

(***************************************************************************)
(* The grid on its own: the grid functions called one after the other on a *)
(* grid of up to MaxGridRows rows, with row and column arguments inside    *)
(* and just outside the grid.  pc = "rows" is the grid of                  *)
(* DiagramPositioner.js, pc = "space" the grid of the positioner of        *)
(* setRows.  `first` holds the call that has just been made: its           *)
(* arguments, the grid before it, the value returned and the error thrown; *)
(* the next call is made once the caller has gone on (Return), or at once  *)
(* when it frees the span that has just been blocked.                      *)
(***************************************************************************)
GridYs == -1..MaxGridRows
GridXs == -1..XLength

Call(op, y, x1, x2, ret, e) ==
    <<[op |-> op, y |-> y, x1 |-> x1, x2 |-> x2, before |-> grid, ret |-> ret,
       err |-> e]>>

GridIdle ==
    UNCHANGED <<pc, nodes, entries, ent, order, err, idx, passes, adj, stale, devs,
                out, settled, clash>>

\* _blockGridRow(y, x1, x2)
BlockGridRow ==
    /\ pc = "rows"
    /\ first = <<>>
    /\ \E y \in GridYs, x1 \in GridXs, x2 \in GridXs :
          /\ x1 <= x2
          /\ grid' = IF markGridRowErr(y, x1, x2, grid) = NoErr
                     THEN blockGridRow(y, x1, x2, grid) ELSE grid
          /\ first' = Call("block", y, x1, x2, Undef, markGridRowErr(y, x1, x2, grid))
    /\ GridIdle

\* _freeGridRow(y, x1, x2)
FreeGridRow ==
    /\ pc = "rows"
    /\ \E y \in GridYs, x1 \in GridXs, x2 \in GridXs :
          /\ x1 <= x2
          /\ \/ first = <<>>
             \/ /\ first # <<>>
                /\ first[1].op = "block"
                /\ <<first[1].y, first[1].x1, first[1].x2>> = <<y, x1, x2>>
          /\ grid' = IF markGridRowErr(y, x1, x2, grid) = NoErr
                     THEN freeGridRow(y, x1, x2, grid) ELSE grid
          /\ first' = Call("free", y, x1, x2, Undef, markGridRowErr(y, x1, x2, grid))
    /\ GridIdle

\* _checkGridRow(y, x1, x2): 1 for true, 0 for false.
CheckGridRow ==
    /\ pc = "rows"
    /\ first = <<>>
    /\ \E y \in GridYs, x1 \in GridXs, x2 \in GridXs :
          /\ x1 <= x2
          /\ first' = Call("check", y, x1, x2,
                           IF checkGridRowErr(y, x1, x2, grid) # NoErr THEN Undef
                           ELSE IF checkGridRow(y, x1, x2, grid) THEN 1 ELSE 0,
                           checkGridRowErr(y, x1, x2, grid))
    /\ UNCHANGED grid
    /\ GridIdle

\* _addGridRow()
AddGridRow ==
    /\ pc = "rows"
    /\ first = <<>>
    /\ Len(grid) < MaxGridRows
    /\ grid' = addGridRow(grid)
    /\ first' = Call("add", Undef, Undef, Undef, Undef, NoErr)
    /\ GridIdle

\* _getAnyRow(start, end) for a span inside the timeline.
GetAnyRow ==
    /\ pc = "rows"
    /\ first = <<>>
    /\ \E x1 \in 0..(XLength - 1), x2 \in 0..(XLength - 1) :
          /\ x1 <= x2
          /\ LET r == AnyRow(Cur, Master,
                             checkGridRange(x1, x2, 0, Len(grid) - 1, grid))
             IN  /\ grid' = r.S.grid
                 /\ first' = Call("any", Undef, x1, x2, r.v, r.S.err)
                 /\ Len(r.S.grid) <= MaxGridRows
    /\ GridIdle

\* _blockGridSpace(y, start, end) for a row of the grid and a span inside
\* the timeline.
BlockGridSpace ==
    /\ pc = "space"
    /\ first = <<>>
    /\ \E y \in 0..(Len(grid) - 1), start \in 0..SimpleYears, end \in 0..SimpleYears :
          /\ start <= end
          /\ grid' = markGridSpace([grid |-> grid, err |-> NoErr], y, start, end,
                                   TRUE).grid
          /\ first' = Call("block", y, start, end, Undef, NoErr)
    /\ GridIdle

\* _findGridSpace(start, end)
FindGridSpace ==
    /\ pc = "space"
    /\ first = <<>>
    /\ \E start \in 0..SimpleYears, end \in 0..SimpleYears :
          /\ start <= end
          /\ Len(findGridSpace(grid, start, end).g) <= MaxGridRows
          /\ grid' = findGridSpace(grid, start, end).g
          /\ first' = Call("find", Undef, start, end,
                           findGridSpace(grid, start, end).v, NoErr)
    /\ GridIdle

\* _findNearestGridSpace(y, start, end) for a row y of the grid.
FindNearestGridSpace ==
    /\ pc = "space"
    /\ first = <<>>
    /\ \E y \in 0..(Len(grid) - 1), start \in 0..SimpleYears, end \in 0..SimpleYears :
          /\ start <= end
          /\ Len(findNearestGridSpace(grid, y, start, end).g) <= MaxGridRows
          /\ grid' = findNearestGridSpace(grid, y, start, end).g
          /\ first' = Call("nearest", y, start, end,
                           findNearestGridSpace(grid, y, start, end).v, NoErr)
    /\ GridIdle

\* The caller goes on with the grid as the call left it.
Return ==
    /\ pc \in {"rows", "space"}
    /\ first # <<>>
    /\ first' = <<>>
    /\ UNCHANGED grid
    /\ GridIdle

NextGrid ==
    \/ Return
    \/ BlockGridRow
    \/ FreeGridRow
    \/ CheckGridRow
    \/ AddGridRow
    \/ GetAnyRow
    \/ BlockGridSpace
    \/ FindGridSpace
    \/ FindNearestGridSpace

\* A grid of one free row, as _createGrid and the constructor of the
\* positioner of setRows leave it when no entry has a manual row.
InitGrid ==
    /\ pc \in {"rows", "space"}
    /\ grid = IF pc = "rows" THEN <<EmptyRow>> ELSE <<SpaceRow, SpaceRow>>
    /\ nodes = <<>>
    /\ entries = <<>>
    /\ ent = [i \in Ids |-> NoEntry]
    /\ order = <<>>
    /\ err = NoErr
    /\ idx = 1
    /\ passes = 0
    /\ adj = {}
    /\ stale = {}
    /\ devs = {}
    /\ out = [n \in Ids |-> Undef]
    /\ first = <<>>
    /\ settled = {}
    /\ clash = {}

SpecGrid == InitGrid /\ [][NextGrid]_vars

(***************************************************************************)
(* Properties of the layout.                                               *)
(***************************************************************************)
\* The entities of the entity list.
Entities == Range(entries)

\* The closed year ranges of two entities intersect.
Intersect(a, b) == a.start <= b.end /\ b.start <= a.end

\* The cells of the span of e that _checkGridRow reads.
Cells(e) == X1(e)..(Max(X2(e), X1(e) + 1) - 1)

\* C1: after a completed layout pass, two distinct entities on the same final
\* row have closed year ranges [start, end] that do not intersect.
C1_NoOverlapOnRow ==
    pc = "done" =>
        \A a, b \in Entities :
            a # b /\ ent[a].row = ent[b].row => ~Intersect(ent[a], ent[b])

\* C2: when the layout pass completes without a fatal error, every entity of
\* the entity list has a row, an integer r with 0 <= r < number of rows of the
\* master grid.
C2_EveryEntityHasRow ==
    pc = "done" => \A i \in Entities : ent[i].row \in 0..(Len(grid) - 1)

\* A completed pass that placed a cluster (by fitting) and a leftover entity,
\* on a master grid of several rows.
C2_Witness ==
    /\ pc = "done"
    /\ Len(order) > 0
    /\ \E i \in Entities : RelKeys(ent[i]) = {}
    /\ Len(grid) > 1

\* C3: an entity whose row is pre-set in the input (row 0 included) still has
\* that row when the pass is complete.
C3_ManualRowKept ==
    pc = "done" =>
        \A i \in Entities : nodes[i].row # Undef => ent[i].row = nodes[i].row

\* A become chain A -> B -> C of the input, each node ending in the year in
\* which the next one starts.
IsChain(A, B, C) ==
    /\ A # B /\ B # C /\ A # C
    /\ nodes[A].become = B /\ nodes[B].become = C /\ nodes[C].become = NoId
    /\ nodes[A].end = nodes[B].start /\ nodes[B].end = nodes[C].start

\* C4: a become chain A -> B -> C is collapsed into exactly one entity with
\* id A, start A.start, end C.end and ids <<A, B, C>>, whatever the order of
\* the nodes; after layout the three nodes have the row of that entity.
C4_ChainCollapsed ==
    pc # "read" =>
        \A A, B, C \in DOMAIN nodes :
            IsChain(A, B, C) =>
                /\ {i \in Entities : OwnIds(ent[i]) \cap {A, B, C} # {}} = {A}
                /\ ent[A].start = nodes[A].start
                /\ ent[A].end = nodes[C].end
                /\ ent[A].ids = <<A, B, C>>
                /\ pc = "done" =>
                       /\ ent[A].row # Undef
                       /\ out[A] = ent[A].row /\ out[B] = ent[A].row
                       /\ out[C] = ent[A].row

\* C5: after final placement, for every entity e and every cluster c for
\* which e has a relativeRows record, e.row - master(c).row is the recorded
\* relative offset, unless the Phase-3 adjustment moved e (or the master of c).
C5_RelativeOffsetsKept ==
    pc = "done" =>
        \A i \in Entities : \A c \in RelKeys(ent[i]) :
            \/ ent[i].row - ent[c].row = ent[i].rel[c].relative
            \/ i \in adj \/ c \in adj

\* C6: the layout pass terminates for every input without become cycles: no
\* recursion of _positionCluster or _findRelatedClusterSource goes on without
\* end, and the Phase-2 loop does not go on without placing an entity.
C6_PassTerminates ==
    (\A i \in DOMAIN nodes : nodes[i].become = NoId) =>
        /\ err # ErrStack
        /\ ~(pc = "position" /\ passes = MaxPasses /\ Len(Unplaced) > 0)

\* Some merge or split of the input names an id that no node has, and nothing
\* else about the input is unusual.
Unresolvable ==
    /\ \E i \in DOMAIN nodes : nodes[i].merge = GhostId \/ nodes[i].split = GhostId
    /\ \A i \in DOMAIN nodes : /\ nodes[i].become = NoId /\ nodes[i].row = Undef
                      /\ nodes[i].end > nodes[i].start

\* C7: if a merge or split names an id that matches no node, building the
\* entities and running the layout raise no error, and every entity ends
\* with a row.
C7_UnresolvedIdSkipped ==
    Unresolvable =>
        /\ pc # "failed"
        /\ pc = "done" => \A i \in DOMAIN nodes : i \in Entities /\ ent[i].row # Undef

\* C8: when the pass completes, every master-grid cell of the span of every
\* entity is blocked on the final row of the entity.
C8_SpanBlockedOnRow ==
    pc = "done" =>
        \A i \in Entities :
            /\ ent[i].row \in 0..(Len(grid) - 1)
            /\ \A c \in Cells(ent[i]) : grid[ent[i].row + 1][c + 1]

\* C9: whenever _assignRow gives an entity that has a row r (row 0 included)
\* a different row, the span it held on row r is freed. Stated for the
\* entities whose row r the positioner itself had assigned (and so blocked):
\* no re-assignment of such an entity leaves its whole old span blocked.
C9_OldSpanFreed == \A s \in stale : nodes[s[1]].row # Undef

\* Every year of the input is within [yearStart, yearEnd], no end is before
\* its start, and every reference names a node.
WellFormed ==
    \A i \in DOMAIN nodes :
        /\ nodes[i].start \in Years /\ nodes[i].end \in Years
        /\ nodes[i].start <= nodes[i].end
        /\ nodes[i].merge \in DOMAIN nodes \cup {NoId}
        /\ nodes[i].split \in DOMAIN nodes \cup {NoId}
        /\ nodes[i].become \in DOMAIN nodes \cup {NoId}

\* C10: over well-formed input the pass never checks or marks a row or a
\* column outside the grid: none of the grid-bounds errors is raised.
C10_NoGridBoundsError ==
    WellFormed => err \notin {ErrInvalidRow, ErrInvalidRange, ErrMarkRow, ErrXCoords}

\* The node j is reached from the node i by following n or fewer (and at
\* least one) become references of the input.
RECURSIVE BecomeReaches(_, _, _)
BecomeReaches(i, j, n) ==
    /\ n > 0
    /\ nodes[i].become \in DOMAIN nodes
    /\ \/ nodes[i].become = j
       \/ BecomeReaches(nodes[i].become, j, n - 1)

\* The become references of the input contain a cycle.
BecomeCycle == \E i \in DOMAIN nodes : BecomeReaches(i, i, Len(nodes))

\* C11: an input whose become chain contains a cycle (a node that becomes
\* itself included) is rejected with an error when the entities are built,
\* and the builder does not recurse without bound on it.
C11_BecomeCycleRejected ==
    BecomeCycle /\ pc # "read" => pc = "failed" /\ err # ErrStack

\* C12: an entity whose end is earlier than its start (after the become
\* chains are resolved) makes the layout fail: the pass does not complete and
\* the entity is never given a row.
C12_ReversedSpanRejected ==
    \A i \in Entities :
        ent[i].end # Undef /\ ent[i].end < ent[i].start =>
            pc # "done" /\ ent[i].row = Undef

\* C13: the number of rows of the master grid never decreases during a layout
\* pass: every step leaves it equal or larger.
C13_GridNeverShrinks == [][Len(grid') >= Len(grid)]_vars

\* A completed pass in which clusters were fitted, an entity was moved by the
\* Phase-3 adjustment and the master grid has grown to four rows or more.
C13_Witness == pc = "done" /\ Len(order) > 0 /\ adj # {} /\ Len(grid) >= 4

\* The only relation of the input is B.split = A, with B starting in the year
\* in which A ends; no node has a manual row and no span is reversed.
SplitPair(A, B) ==
    /\ A # B
    /\ nodes[B].split = A /\ nodes[B].start = nodes[A].end
    /\ \A i \in DOMAIN nodes :
          /\ nodes[i].become = NoId /\ nodes[i].merge = NoId
          /\ (i # B => nodes[i].split = NoId)
          /\ nodes[i].row = Undef
          /\ nodes[i].start <= nodes[i].end

\* C14: for a cluster made of A and of B that splits from A in the year A
\* ends, placed by a plain fit, the final rows of A and B are adjacent:
\* |B.row - A.row| = 1.
C14_SplitAdjacent ==
    pc = "done" =>
        \A A, B \in DOMAIN nodes :
            SplitPair(A, B) => Abs(ent[B].row - ent[A].row) = 1

\* A completed pass over such a pair: the cluster of A was fitted (A heads the
\* order of execution) and both have their rows.
C14_Witness ==
    /\ pc = "done"
    /\ \E A, B \in DOMAIN nodes :
          /\ SplitPair(A, B) /\ order = <<A>>
          /\ ent[A].cluster = <<A, B>>
          /\ ent[A].row # Undef /\ ent[B].row # Undef

\* The input has no relations, no manual rows and no reversed span, and the
\* closed year ranges of its nodes intersect pairwise.
AllConflict ==
    /\ \A i \in DOMAIN nodes :
          /\ nodes[i].become = NoId /\ nodes[i].split = NoId /\ nodes[i].merge = NoId
          /\ nodes[i].row = Undef
          /\ nodes[i].start <= nodes[i].end
    /\ \A i, j \in DOMAIN nodes : Intersect(nodes[i], nodes[j])

\* C15: n entities without relations or manual rows whose spans all conflict
\* with one another end on n pairwise different rows, and the master grid has
\* at least n rows.
C15_ConflictingOnDistinctRows ==
    pc = "done" /\ AllConflict =>
        /\ \A i, j \in DOMAIN nodes : i # j => ent[i].row # ent[j].row
        /\ \A i \in DOMAIN nodes : ent[i].row \in 0..(Len(grid) - 1)
        /\ Len(grid) >= Len(nodes)

\* A completed pass over such an input, the last entity on the last row.
C15_Witness ==
    /\ pc = "done" /\ AllConflict
    /\ Len(entries) = Len(nodes)
    /\ ent[entries[Len(entries)]].row = Len(nodes) - 1

C17_MoveNeverWorse == \A d \in devs : d[3] <= d[2]

\* C18: under setRows, the row found for an entry without a manual row holds,
\* on the cells of the entry's span (its start to the end of its become
\* chain), neither the span nor the buffer of an entry settled before it
\* outside its chain, the cell behind its own fork targets aside.
C18_SpanClearOfSettled == clash = {}

\* The entities that the cluster of entity E is said to hold: E itself, the
\* entities that split from E, the entities that merge into E (unless E split
\* from them or they end where E starts), and the entity that E merges into
\* if it starts where E ends.
ClusterMembers(E) ==
    {E}
    \cup {e \in Entities : ent[e].split = E}
    \cup {m \in Entities : ent[m].merge = E /\ ent[E].split # m
                              /\ ent[m].end # ent[E].start}
    \cup {t \in Entities : ent[E].merge = t /\ ent[t].start = ent[E].end}

\* C19: once the entities are built, the cluster of every entity E lists
\* exactly the members above, each of them once, and E has a cluster if and
\* only if there is more than one member.
C19_ClusterListsEachOnce ==
    pc \notin {"read", "failed"} =>
        \A E \in Entities :
            IF Cardinality(ClusterMembers(E)) > 1
            THEN /\ Range(ent[E].cluster) = ClusterMembers(E)
                 /\ Len(ent[E].cluster) = Cardinality(ClusterMembers(E))
            ELSE ent[E].cluster = <<>>

\* Every become, split and merge of the nodes names a node of the document.
RefsExist ==
    \A i \in DOMAIN nodes :
        {nodes[i].become, nodes[i].split, nodes[i].merge} \subseteq {NoId} \cup DOMAIN nodes

\* v is the id of a surviving entity and not a collapsed member of a chain.
Surviving(v) ==
    v \in Entities /\ \A H \in Entities : v \in Range(ent[H].ids) => v = H

\* The builder has thrown on a reference that it could not re-point.
ReferenceLost == pc = "failed" /\ err = ErrType /\ entries = <<>>

\* C20: when every reference of the input names a node, the builder re-points
\* the references to collapsed members: it does not fail on one, and after the
\* become chains are collapsed the split and the merge of every surviving
\* entity name a surviving entity, the chain entity in place of a collapsed
\* member.
C20_ReferencesSurvive ==
    RefsExist =>
        /\ ~ReferenceLost
        /\ entries # <<>> =>
              \A E \in Entities :
                  /\ ent[E].split # NoId => Surviving(ent[E].split)
                  /\ ent[E].merge # NoId => Surviving(ent[E].merge)

\* No node is the successor of two nodes.
OnePredecessor ==
    \A i, j \in DOMAIN nodes :
        i # j /\ nodes[i].become # NoId => nodes[i].become # nodes[j].become

\* C21: when the become chains have no cycle and no fork, and every reference
\* names a node, the builder returns every input id exactly once: as the id
\* of an entity or in the ids of exactly one entity.
C21_EveryIdCoveredOnce ==
    ~BecomeCycle /\ OnePredecessor /\ RefsExist /\ pc # "read" =>
        \A i \in DOMAIN nodes :
            Cardinality({E \in Entities : i = E \/ i \in Range(ent[E].ids)}) = 1

\* The rows of grid g that _checkGridSpace finds free between start and end.
FreeSpaceRows(g, start, end) ==
    {r \in 0..(Len(g) - 1) : checkGridSpace(g, r, start, end)}

\* C22: _findNearestGridSpace(y, start, end) returns a free row at the least
\* distance from y, the lower of two rows equally near, and leaves the grid
\* as it is; only when no row is free does it add one row and return it.
C22_NearestFreeRow ==
    first # <<>> /\ first[1].op = "nearest" =>
        LET c == first[1]
            free == FreeSpaceRows(c.before, c.x1, c.x2)
        IN  IF free # {}
            THEN /\ grid = c.before
                 /\ c.ret \in free
                 /\ \A r \in free : /\ Abs(c.ret - c.y) <= Abs(r - c.y)
                                    /\ Abs(c.ret - c.y) = Abs(r - c.y) => c.ret <= r
            ELSE /\ grid = Append(c.before, SpaceRow)
                 /\ c.ret = Len(c.before)

\* A nearest search from a blocked row with a free row at the same distance
\* above and below, which returned the lower index.
C22_Witness ==
    /\ first # <<>>
    /\ first[1].op = "nearest"
    /\ first[1].y - 1 \in FreeSpaceRows(first[1].before, first[1].x1, first[1].x2)
    /\ first[1].y + 1 \in FreeSpaceRows(first[1].before, first[1].x1, first[1].x2)
    /\ first[1].y \notin FreeSpaceRows(first[1].before, first[1].x1, first[1].x2)
    /\ first[1].ret = first[1].y - 1

\* The rows of grid g that are free between x1 and x2 (a span of one cell
\* when x1 = x2).
FreeRows(g, x1, x2) ==
    {r \in 0..(Len(g) - 1) :
        \A c \in x1..((IF x1 = x2 THEN x2 + 1 ELSE x2) - 1) :
            c + 1 \in DOMAIN g[r + 1] => ~g[r + 1][c + 1]}

\* C23: _getAnyRow and _findGridSpace, for a span inside the timeline, return
\* the lowest free row of the grid (row 0 included) and leave the grid as it
\* is; only when no row is free do they add one row and return it.
C23_LowestFreeRow ==
    first # <<>> /\ first[1].op \in {"any", "find"} =>
        LET c == first[1]
            free == FreeRows(c.before, c.x1, c.x2)
        IN  /\ c.err = NoErr
            /\ IF free # {}
               THEN grid = c.before /\ c.ret = MinOf(free)
               ELSE /\ Len(grid) = Len(c.before) + 1
                    /\ SubSeq(grid, 1, Len(c.before)) = c.before
                    /\ c.ret = Len(c.before)

\* The arguments of a grid call lie outside the grid: the row is not one of
\* its rows, or the column range x1..x2 reaches below column 0 or beyond the
\* last column.
OutsideGrid(c) ==
    \/ c.y < 0 \/ c.y >= Len(c.before)
    \/ c.x1 < 0 \/ c.x2 > XLength - 1

\* C24: a check, block or free of the master grid with a row or a column
\* range outside the grid throws, and leaves the grid as it was.
C24_OutsideGridThrows ==
    first # <<>> /\ pc = "rows" /\ first[1].op \in {"check", "block", "free"}
                 /\ OutsideGrid(first[1]) =>
        first[1].err # NoErr /\ grid = first[1].before

\* The call c blocked, without an error, a span that _checkGridRow found free
\* on the grid before it.
BlockedFreeSpan(c) ==
    /\ c.op = "block"
    /\ c.err = NoErr
    /\ checkGridRowErr(c.y, c.x1, c.x2, c.before) = NoErr
    /\ checkGridRow(c.y, c.x1, c.x2, c.before)

\* C30: the block of a span that is free on its row, followed by the free of
\* the same span, leaves the grid as it was before the block.
C30_BlockThenFreeRestores ==
    [][(/\ first # <<>>
        /\ BlockedFreeSpan(first[1])
        /\ first' # <<>>
        /\ first'[1].op = "free")
       => grid' = first[1].before]_vars

\* C25: whenever a member c of the cluster of a master m has its relative
\* position in that cluster, the offset recorded is the member's row in the
\* cluster grid less the master's, and the master's own offset is 0.
C25_RelativeIsRowDifference ==
    \A m \in Entities : \A k \in DOMAIN ent[m].cluster :
        LET c == ent[m].cluster[k]
        IN  ent[c].rel[m].row # Undef /\ ent[m].rel[m].row # Undef =>
                /\ ent[c].rel[m].relative = ent[c].rel[m].row - ent[m].rel[m].row
                /\ ent[m].rel[m].relative = 0

\* The cells that _markGridRow writes for the span of entry c: the span
\* and one cell at either end of it.
BlockCells(c) ==
    {x \in 0..(XLength - 1) :
        yearToGrid(ent[c].start) - 1 <= x /\ x <= yearToGrid(ent[c].end)}

\* The spans of a and b have a year in common.
SpansConflict(a, b) == ent[a].start <= ent[b].end /\ ent[b].start <= ent[a].end

\* The clusters whose relative layout is done.
LaidOut == IF pc = "calc" /\ err = NoErr THEN {Clustered[k] : k \in 1..(idx - 1)} ELSE {}

\* C26: after the relative layout of a cluster, no two members with
\* conflicting spans have the same relative row, and the cluster's grid is
\* blocked exactly on the span (with its end cells) of each member, on the
\* relative row recorded for that member.
C26_LocalGridMatchesRows ==
    \A m \in LaidOut :
        LET mem == Range(ent[m].cluster)
        IN  /\ \A a, b \in mem :
                a # b /\ SpansConflict(a, b) => ent[a].rel[m].row # ent[b].rel[m].row
            /\ \A r \in 0..(Len(ent[m].grid) - 1) : \A x \in 0..(XLength - 1) :
                ent[m].grid[r + 1][x + 1] <=>
                    \E c \in mem : ent[c].rel[m].row = r /\ x \in BlockCells(c)

\* The cluster that the next turn of the while loop of _position starts with.
NextRoot == findRelatedClusterSource(ent, Unplaced[1], {})

\* The first _fitCluster call of that turn: [S, r].
NextFit == fitCluster([Cur EXCEPT !.order = Append(@, NextRoot.v)], NextRoot.v)

\* "if (space.fit)": the state after the assignment loop over the root
\* cluster, and the first of its linked clusters.
NextAssigned == AssignCluster(NextFit.S, NextRoot.v, NextFit.r.row, 1)
NextLinked == Linked(NextFit.S, NextRoot.v)[1]

\* The _fitCluster call of _positionCluster for that linked cluster: [S, r].
LinkedFit == fitCluster([NextAssigned EXCEPT !.order = Append(@, NextLinked)], NextLinked)

\* The next turn of the loop fits the root cluster at once and goes on to a
\* linked cluster whose master has a row by then.
FitsPinned ==
    /\ pc = "position" /\ err = NoErr /\ passes < MaxPasses
    /\ Len(Unplaced) > 0
    /\ NextRoot.err = NoErr
    /\ ent[NextRoot.v].grid # <<>>
    /\ NextFit.r.fit
    /\ Ok(NextAssigned)
    /\ Linked(NextFit.S, NextRoot.v) # <<>>
    /\ NextLinked # NextRoot.v
    /\ findRelatedClusterSource(NextAssigned.ent, NextLinked, {}).err = NoErr
    /\ NextAssigned.ent[NextLinked].grid # <<>>
    /\ NextAssigned.ent[NextLinked].row # Undef
    /\ Ok(LinkedFit.S)

\* The cluster grid as _fitCluster compares it: freed of the members that
\* have a row.
ComparedGrid(S, id) == MarkPlaced(S, id, Placed(S, id), 1, FALSE).ent[id].grid

\* C27: when the master of the cluster already has a row, _fitCluster reports
\* a fit only at base row master.row - master's relative row, and a reported
\* fit at base row r means that no cell is used both in a row j of the
\* cluster grid and in row r + j of the master grid.
C27_FitOnlyWherePinned ==
    FitsPinned /\ LinkedFit.r.fit =>
        LET m == NextLinked
            E == NextAssigned.ent
            r == LinkedFit.r.row
            local == ComparedGrid(LinkedFit.S, m)
        IN  /\ r = E[m].row - E[m].rel[m].row
            /\ \A j \in 0..(Len(local) - 1) :
                /\ r + j < Len(LinkedFit.S.grid)
                /\ \A x \in 1..XLength : ~(local[j + 1][x] /\ LinkedFit.S.grid[r + j + 1][x])

C27_Witness == FitsPinned /\ LinkedFit.r.fit /\ NextAssigned.ent[NextLinked].row > 0

\* The next turn of the loop fits the root cluster at once and runs the
\* assignment loop of _positionCluster over it.
RootAssigns ==
    /\ pc = "position" /\ err = NoErr /\ passes < MaxPasses
    /\ Len(Unplaced) > 0
    /\ NextRoot.err = NoErr
    /\ ent[NextRoot.v].grid # <<>>
    /\ NextFit.r.fit
    /\ Ok(NextAssigned)

\* C28: in the assignment loop of _positionCluster every member without a row
\* gets the fit's base row plus its relative row in the cluster, and every
\* member that has a row already, row 0 included, keeps that row and the
\* block of its span on it.
C28_AssignKeepsPinned ==
    RootAssigns =>
        \A c \in Range(ent[NextRoot.v].cluster) :
            LET before == NextFit.S.ent[c]
                after == NextAssigned.ent[c]
            IN  IF before.row = Undef
                THEN after.row = NextFit.r.row + before.rel[NextRoot.v].row
                ELSE /\ after.row = before.row
                     /\ after.row < Len(NextAssigned.grid)
                     /\ \A x \in Cells(before) : NextAssigned.grid[after.row + 1][x + 1]

\* A _freePosition call made by _forceCluster: the state before, the state
\* after, the member and the row freed for it; on = FALSE when the next turn
\* of the loop makes no such call.
NoCase == [on |-> FALSE]

Freed(S, c, row, T) ==
    IF ~Ok(T) THEN NoCase
    ELSE [on |-> TRUE, before |-> S, after |-> T, member |-> c, row |-> row]

\* The call for the member c, unless c is on the target row itself.
ForceFreed(S, c, row) ==
    IF S.ent[c].row = row \/ row < 0 THEN NoCase
    ELSE Freed(S, c, row, freePosition(S, row, c))

\* The first _freePosition call of _forceCluster(L) in the state S: the two
\* loops take the members before the master, then those after it.
ForceFirst(S, L, list) ==
    IF ~Ok(S) \/ list = <<>> THEN NoCase
    ELSE ForceFreed(S, list[1],
                    S.ent[list[1]].rel[L].row + S.ent[L].row - S.ent[L].rel[L].row)

ForceFree(S, L) == ForceFirst(S, L, Beside(S, L, -1) \o Beside(S, L, 1))

\* "if (!space.fit && entry.row)" for the linked cluster L after its first
\* fit f: the master grid is extended, the cluster fitted again and forced.
LinkedForce(f, L) ==
    IF Ok(f.S) /\ ~f.r.fit /\ Truthy(f.S.ent[L].row)
    THEN ForceFree(fitCluster(Extended(f, L), L).S, L)
    ELSE NoCase

\* _positionCluster(L) for the first linked cluster, in the state A after the
\* assignment loop over the root cluster.
LinkedCase(A, L) ==
    IF /\ Ok(A)
       /\ findRelatedClusterSource(A.ent, L, {}).err = NoErr
       /\ A.ent[L].grid # <<>>
    THEN LinkedForce(fitCluster([A EXCEPT !.order = Append(@, L)], L), L)
    ELSE NoCase

\* _positionCluster(root) once the root cluster has its first fit f.
RootCase(f, root, linked) ==
    IF f.r.fit /\ linked # <<>> /\ linked[1] # root
    THEN LinkedCase(AssignCluster(f.S, root, f.r.row, 1), linked[1])
    ELSE NoCase

RootFitted(f, root) == RootCase(f, root, Linked(f.S, root))

TurnCase(src) ==
    IF src.err = NoErr /\ ent[src.v].grid # <<>>
    THEN RootFitted(fitCluster([Cur EXCEPT !.order = Append(@, src.v)], src.v), src.v)
    ELSE NoCase

\* The first _freePosition call of the next turn of the while loop of
\* _position, when the root cluster fits at once and its first linked
\* cluster has to be forced.
ForceCase ==
    IF pc = "position" /\ err = NoErr /\ passes < MaxPasses /\ Len(Unplaced) > 0
    THEN TurnCase(NextRoot)
    ELSE NoCase

\* The entities that the call displaced.
Displaced(c) == {d \in Entities : c.after.ent[d].row # c.before.ent[d].row}

\* The span of the member is free on the row, and every displaced entity is
\* one row lower, sharing no year with another entity on that row.
FreedAndShifted(c) ==
    c.on =>
        /\ c.row < Len(c.after.grid)
        /\ \A x \in Cells(c.before.ent[c.member]) : ~c.after.grid[c.row + 1][x + 1]
        /\ \A d \in Displaced(c) :
            /\ c.after.ent[d].row = c.before.ent[d].row + 1
            /\ \A o \in Entities \ {d} :
                c.after.ent[o].row = c.after.ent[d].row =>
                    \/ c.after.ent[o].end < c.after.ent[d].start
                    \/ c.after.ent[d].end < c.after.ent[o].start

\* Forcing as the next turn of the loop does it leaves the span free and
\* shifts by one row.
ForcedCallFreed == FreedAndShifted(ForceCase)

\* The entities that are members of a cluster, and a call _freePosition(row,
\* e) for one of them in the present state, unless e is on that row itself.
MemberEntities == UNION {Range(ent[m].cluster) : m \in Entities}
FreeCall(id, row) ==
    IF ent[id].row = row THEN NoCase
    ELSE Freed(Cur, id, row, freePosition(Cur, row, id))

\* C29: when _freePosition(row, e) returns, the span of e is free on that row
\* of the master grid, also for row 0 and for start = end, and every entity
\* it displaced is exactly one row lower than before, on a span that no
\* other entity on that row shares.
C29_FreedAndShiftedOneDown ==
    pc = "position" /\ err = NoErr =>
        \A id \in MemberEntities : \A row \in 0..(Len(grid) - 1) :
            FreedAndShifted(FreeCall(id, row))

====
